---- MODULE Spec2Model ----
(***************************************************************************)
(* A model of the ackulator base crate: the storage pools, the composite   *)
(* unit algebra, the scalar arithmetic and the Instance with its three     *)
(* namespaces, its expression evaluator and its statement executor.        *)
(***************************************************************************)
EXTENDS Integers, Sequences, FiniteSets, TLC

(***************************************************************************)
(* f64.  A finite f64 is modelled by the exact number n/d * 10^e, kept in  *)
(* the canonical form in which d is coprime to 10 and to n, and n is not a *)
(* multiple of 10 (zero is 0/1 * 10^0).  d = 0 encodes the non-finite      *)
(* values: n = 1 is +inf, n = -1 is -inf, n = 0 is NaN.  Rounding is not   *)
(* modelled: every operation below is exact.                               *)
(***************************************************************************)
AbsInt(x) == IF x < 0 THEN -x ELSE x

SignInt(x) == IF x < 0 THEN -1 ELSE IF x > 0 THEN 1 ELSE 0

RECURSIVE Gcd(_, _)
Gcd(a, b) == IF b = 0 THEN a ELSE Gcd(b, a % b)

RECURSIVE FCanon(_, _, _)
FCanon(n, d, e) ==
    IF d = 0 THEN [n |-> SignInt(n), d |-> 0, e |-> 0]
    ELSE IF d < 0 THEN FCanon(-n, -d, e)
    ELSE IF n = 0 THEN [n |-> 0, d |-> 1, e |-> 0]
    ELSE IF d % 2 = 0 THEN FCanon(n * 5, d \div 2, e - 1)
    ELSE IF d % 5 = 0 THEN FCanon(n * 2, d \div 5, e - 1)
    ELSE IF n % 10 = 0 THEN FCanon(n \div 10, d, e + 1)
    ELSE LET g == Gcd(AbsInt(n), d) IN [n |-> n \div g, d |-> d \div g, e |-> e]

\* The f64 of an integer literal, and of the literal i * 10^e.
F(i) == FCanon(i, 1, 0)

FE(i, e) == FCanon(i, 1, e)

FNaN == [n |-> 0, d |-> 0, e |-> 0]

FIsFinite(a) == a.d # 0

RECURSIVE Pow10(_)
Pow10(k) == IF k <= 0 THEN 1 ELSE 10 * Pow10(k - 1)

FNeg(a) == [a EXCEPT !.n = -a.n]

FAbs(a) == [a EXCEPT !.n = AbsInt(a.n)]

FMul(a, b) == FCanon(a.n * b.n, a.d * b.d, a.e + b.e)

FDiv(a, b) ==
    IF ~FIsFinite(b)
    THEN (IF FIsFinite(a) /\ b.n # 0 THEN F(0) ELSE FNaN)
    ELSE FCanon(a.n * b.d, a.d * b.n, a.e - b.e)

FAdd(a, b) ==
    IF ~FIsFinite(a) \/ ~FIsFinite(b)
    THEN (IF ~FIsFinite(a) /\ ~FIsFinite(b)
          THEN (IF a.n = b.n THEN a ELSE FNaN)
          ELSE IF ~FIsFinite(a) THEN a ELSE b)
    ELSE LET e == IF a.e < b.e THEN a.e ELSE b.e
         IN  FCanon(a.n * Pow10(a.e - e) * b.d + b.n * Pow10(b.e - e) * a.d,
                    a.d * b.d, e)

\* floor(log10(n/d)) for integers n, d > 0.
RECURSIVE RatOrder(_, _)
RatOrder(n, d) ==
    IF n < d THEN RatOrder(n * 10, d) - 1
    ELSE IF n >= 10 * d THEN RatOrder(n, d * 10) + 1
    ELSE 0

\* floor(log10(|a|)) of a finite nonzero a.
FOrder(a) == a.e + RatOrder(AbsInt(a.n), a.d)

\* a < b on f64 (false when either is NaN).
FLt(a, b) ==
    IF (a.d = 0 /\ a.n = 0) \/ (b.d = 0 /\ b.n = 0) THEN FALSE
    ELSE IF a = b THEN FALSE
    ELSE IF a.d = 0 THEN a.n < 0
    ELSE IF b.d = 0 THEN b.n > 0
    ELSE IF SignInt(a.n) # SignInt(b.n) THEN SignInt(a.n) < SignInt(b.n)
    ELSE IF a.n = 0 THEN FALSE
    ELSE IF FOrder(a) # FOrder(b)
         THEN (IF a.n > 0 THEN FOrder(a) < FOrder(b) ELSE FOrder(a) > FOrder(b))
    ELSE FAdd(a, FNeg(b)).n < 0

\* The cancellation threshold 1e-10 of the factor bags.
CancelEpsilon == FE(1, -10)

(***************************************************************************)
(* Strings.  A Rust String is the sequence of its characters, so that      *)
(* format!, to_lowercase and slicing are computed character by character.  *)
(***************************************************************************)
UpperCase ==
    <<"A","B","C","D","E","F","G","H","I","J","K","L","M",
      "N","O","P","Q","R","S","T","U","V","W","X","Y","Z">>

LowerCase ==
    <<"a","b","c","d","e","f","g","h","i","j","k","l","m",
      "n","o","p","q","r","s","t","u","v","w","x","y","z">>

\* char::to_lowercase on the characters the model uses.
ToLowercase(c) ==
    IF \E i \in 1..Len(UpperCase) : UpperCase[i] = c
    THEN LowerCase[CHOOSE i \in 1..Len(UpperCase) : UpperCase[i] = c]
    ELSE c

Range(s) == {s[i] : i \in 1..Len(s)}

(***************************************************************************)
(* StoragePool<T>: a vector; StorageId<T> is the index into it.            *)
(***************************************************************************)
StoragePool_new == <<>>

StoragePool_next_id(pool) == Len(pool)

\* A push that hands out the id that follows the pushed item.
StoragePool_push_counting_after(pool, item) ==
    [pool |-> Append(pool, item), id |-> Len(pool) + 1]

\* push returns the pool it leaves and the id it hands out.
StoragePool_push(pool, item) == [pool |-> Append(pool, item), id |-> StoragePool_next_id(pool)]

\* Index<StorageId<T>>: the bounds check of the vector decides.
StoragePool_has(pool, id) == id \in 0..(Len(pool) - 1)

StoragePool_index(pool, id) == pool[id + 1]

(***************************************************************************)
(* QuantityBag<T>: a vector of (quantity, item) pairs, item being an id.   *)
(***************************************************************************)
QuantityBag_empty == <<>>

\* binary_search_by on the ids: the index of the entry of `item`, or 0.
QuantityBag_item_index(items, item) ==
    IF \E i \in 1..Len(items) : items[i][2] = item
    THEN CHOOSE i \in 1..Len(items) : items[i][2] = item
    ELSE 0

QuantityBag_get(items, item) ==
    IF QuantityBag_item_index(items, item) # 0 THEN items[QuantityBag_item_index(items, item)][1] ELSE F(0)

QuantityBag_scale(items, factor) == [i \in 1..Len(items) |-> <<FMul(items[i][1], factor), items[i][2]>>]

\* A mul that scales by zero as by any other factor.
QuantityBag_mul_keeping_entries(items, factor) == QuantityBag_scale(items, factor)

\* QuantityBag::mul: a zero factor clears the bag, any other scales every quantity.
QuantityBag_mul(items, factor) ==
    IF factor = F(0) THEN QuantityBag_empty ELSE QuantityBag_scale(items, factor)

\* The test of the Equal arm of union: the summed quantity is kept.
KeepsQuantity(q) == FLt(CancelEpsilon, FAbs(q))

\* The merge loop of union, with a and b the entries in hand and self_items,
\* other_items what the two iterators still hold.
RECURSIVE UnionLoop(_, _, _, _, _)
UnionLoop(a, b, self_items, other_items, new_items) ==
    IF a[2] = b[2]
    THEN LET Push(new_quantity) ==
                 IF KeepsQuantity(new_quantity)
                 THEN Append(new_items, <<new_quantity, a[2]>>)
                 ELSE new_items
             Continue(pushed) ==
                 IF self_items # <<>> /\ other_items # <<>>
                 THEN UnionLoop(Head(self_items), Head(other_items),
                                Tail(self_items), Tail(other_items), pushed)
                 ELSE pushed \o self_items \o other_items
         IN  Continue(Push(FAdd(a[1], b[1])))
    ELSE IF a[2] > b[2]
    THEN IF other_items # <<>>
         THEN UnionLoop(a, Head(other_items), self_items, Tail(other_items),
                        Append(new_items, b))
         ELSE Append(new_items, b) \o <<a>> \o self_items
    ELSE IF self_items # <<>>
         THEN UnionLoop(Head(self_items), b, Tail(self_items), other_items,
                        Append(new_items, a))
         ELSE Append(new_items, a) \o <<b>> \o other_items

QuantityBag_union(self, other) ==
    IF Len(self) = 0 THEN other
    ELSE IF Len(other) = 0 THEN self
    ELSE UnionLoop(Head(self), Head(other), Tail(self), Tail(other), <<>>)

\* The debug assertion that closes union: the merged list equals its sorted
\* self (f64 equality: a NaN quantity equals nothing, itself included).
UnionAssertion(self, other) ==
    (Len(self) # 0 /\ Len(other) # 0) =>
        LET EqualsSorted(new_items) ==
                /\ \A i \in 1..Len(new_items) : new_items[i][1] # FNaN
                /\ \A i, j \in 1..Len(new_items) :
                       i < j => new_items[i][2] <= new_items[j][2]
        IN  EqualsSorted(QuantityBag_union(self, other))

(***************************************************************************)
(* Composite<I>: a QuantityBag of factors.                                 *)
(***************************************************************************)
Composite_identity == QuantityBag_empty

Composite_is_identity(c) == Len(c) = 0

Composite_from(item) == <<(<<F(1), item>>)>>

Composite_pow(c, exp) == QuantityBag_mul(c, exp)

Composite_mul(self, rhs) == QuantityBag_union(self, rhs)

\* A division that multiplies.
Composite_div_multiplying(self, rhs) == QuantityBag_union(self, rhs)

Composite_div(self, rhs) == QuantityBag_union(self, QuantityBag_mul(rhs, F(-1)))

Composite_eq(self, other) == Composite_is_identity(Composite_div(self, other))

(***************************************************************************)
(* The metric prefixes: name, abbreviation, factor ("u" stands for the     *)
(* one-character abbreviation of Micro).                                   *)
(***************************************************************************)
METRIC_PREFIXES ==
    << <<(<<"Y","o","t","t","a">>), <<"Y">>, FE(1, 24)>>,
       <<(<<"Z","e","t","t","a">>), <<"Z">>, FE(1, 21)>>,
       <<(<<"E","x","a">>), <<"E">>, FE(1, 18)>>,
       <<(<<"P","e","t","a">>), <<"P">>, FE(1, 15)>>,
       <<(<<"T","e","r","a">>), <<"T">>, FE(1, 12)>>,
       <<(<<"G","i","g","a">>), <<"G">>, FE(1, 9)>>,
       <<(<<"M","e","g","a">>), <<"M">>, FE(1, 6)>>,
       <<(<<"K","i","l","o">>), <<"k">>, FE(1, 3)>>,
       <<(<<"H","e","c","t","o">>), <<"h">>, FE(1, 2)>>,
       <<(<<"D","e","k","a">>), <<"d","a">>, FE(1, 1)>>,
       <<(<<"D","e","c","i">>), <<"d">>, FE(1, -1)>>,
       <<(<<"C","e","n","t","i">>), <<"c">>, FE(1, -2)>>,
       <<(<<"M","i","l","l","i">>), <<"m">>, FE(1, -3)>>,
       <<(<<"M","i","c","r","o">>), <<"u">>, FE(1, -6)>>,
       <<(<<"N","a","n","o">>), <<"n">>, FE(1, -9)>>,
       <<(<<"P","i","c","o">>), <<"p">>, FE(1, -12)>>,
       <<(<<"F","e","m","t","o">>), <<"f">>, FE(1, -15)>>,
       <<(<<"A","t","t","o">>), <<"a">>, FE(1, -18)>>,
       <<(<<"Z","e","p","t","o">>), <<"z">>, FE(1, -21)>>,
       <<(<<"Y","o","c","t","o">>), <<"y">>, FE(1, -24)>> >>

SMALL_PREFIXES_START == 10

(***************************************************************************)
(* Data.  Every MetaData, ValueData and Data value is a record             *)
(* [kind, v]; the kind names the variant: UnitClass, Unit and EntityClass  *)
(* are Data::Meta, Scalar, Entity and String are Data::Value.              *)
(***************************************************************************)
MetaUnitClass(c) == [kind |-> "UnitClass", v |-> c]

MetaUnit(c) == [kind |-> "Unit", v |-> c]

MetaEntityClass(id) == [kind |-> "EntityClass", v |-> id]

ValueScalar(s) == [kind |-> "Scalar", v |-> s]

ValueEntity(e) == [kind |-> "Entity", v |-> e]

ValueString(s) == [kind |-> "String", v |-> s]

\* From<UnitClassId>, From<UnitId> and From<EntityClassId> for MetaData.
UnitClassId_into(id) == MetaUnitClass(Composite_from(id))

UnitId_into(id) == MetaUnit(Composite_from(id))

EntityClassId_into(id) == MetaEntityClass(id)

(***************************************************************************)
(* ManyToOneMap<K, V>: the items, and the index of its item for each key.  *)
(***************************************************************************)
ManyToOneMap_new == [items |-> <<>>, keys |-> [k \in {} |-> 0]]

\* A contains_any_key that looks at the first key only.
ManyToOneMap_contains_first_key(map, keys) ==
    Len(keys) > 0 /\ keys[1] \in DOMAIN map.keys

ManyToOneMap_contains_any_key(map, keys) ==
    \E i \in 1..Len(keys) : keys[i] \in DOMAIN map.keys

ManyToOneMap_insert(map, keys, item) ==
    LET index == Len(map.items)
    IN  [items |-> Append(map.items, item),
         keys  |-> [k \in (DOMAIN map.keys) \cup Range(keys) |->
                       IF k \in Range(keys) THEN index ELSE map.keys[k]]]

\* get and get_key_value return an Option: whether it is Some, and its content.
ManyToOneMap_has(map, key) == key \in DOMAIN map.keys

ManyToOneMap_get(map, key) == map.items[map.keys[key] + 1]

(***************************************************************************)
(* Instance.                                                               *)
(***************************************************************************)
Instance_new ==
    [unit_classes   |-> StoragePool_new,
     units          |-> StoragePool_new,
     entity_classes |-> StoragePool_new,
     meta_items     |-> ManyToOneMap_new,
     values         |-> ManyToOneMap_new,
     labels         |-> ManyToOneMap_new]

\* The outcome of a call: Ok or Err as returned, Panic when the call unwinds;
\* inst is the Instance the call leaves, value what it returns.
Outcome(status, inst, value) == [status |-> status, inst |-> inst, value |-> value]

NoValue == <<>>

\* A declare_meta_item that also refuses a name that is a value or a label.
declare_meta_item_unique(inst, names, data) ==
    IF \/ ManyToOneMap_contains_any_key(inst.meta_items, names)
       \/ ManyToOneMap_contains_any_key(inst.values, names)
       \/ ManyToOneMap_contains_any_key(inst.labels, names)
    THEN Outcome("Err", inst, NoValue)
    ELSE Outcome("Ok", [inst EXCEPT !.meta_items = ManyToOneMap_insert(@, names, data)], NoValue)

declare_meta_item(inst, names, data) ==
    IF ManyToOneMap_contains_any_key(inst.meta_items, names)
    THEN Outcome("Err", inst, NoValue)
    ELSE Outcome("Ok", [inst EXCEPT !.meta_items = ManyToOneMap_insert(@, names, data)], NoValue)

\* A declare_value that binds the names whether or not they are bound.
declare_value_rebinding(inst, names, data) ==
    Outcome("Ok", [inst EXCEPT !.values = ManyToOneMap_insert(@, names, data)], NoValue)

declare_value(inst, names, data) ==
    IF ManyToOneMap_contains_any_key(inst.values, names)
    THEN Outcome("Err", inst, NoValue)
    ELSE Outcome("Ok", [inst EXCEPT !.values = ManyToOneMap_insert(@, names, data)], NoValue)

\* A declare_label that binds the names whether or not they are bound.
declare_label_rebinding(inst, names, data) ==
    Outcome("Ok", [inst EXCEPT !.labels = ManyToOneMap_insert(@, names, data)], NoValue)

declare_label(inst, names, data) ==
    IF ManyToOneMap_contains_any_key(inst.labels, names)
    THEN Outcome("Err", inst, NoValue)
    ELSE Outcome("Ok", [inst EXCEPT !.labels = ManyToOneMap_insert(@, names, data)], NoValue)

\* debug_assert_eq!(pool.push(item), id): the push is an argument of the
\* assertion, which a build without debug assertions does not evaluate.
DebugAssertedPush(debug_assertions, pool, item) ==
    IF debug_assertions THEN StoragePool_push(pool, item).pool ELSE pool

add_unit_class(inst, debug_assertions, unit_class) ==
    LET id == StoragePool_next_id(inst.unit_classes)
        declared == declare_meta_item(inst, unit_class.names, UnitClassId_into(id))
    IN  IF declared.status # "Ok" THEN Outcome("Err", inst, NoValue)
        ELSE Outcome("Ok",
                     [declared.inst EXCEPT
                         !.unit_classes = DebugAssertedPush(debug_assertions, @, unit_class)],
                     id)

add_entity_class(inst, debug_assertions, entity_class) ==
    LET id == StoragePool_next_id(inst.entity_classes)
        declared == declare_meta_item(inst, entity_class.names, EntityClassId_into(id))
    IN  IF declared.status # "Ok" THEN Outcome("Err", inst, NoValue)
        ELSE Outcome("Ok",
                     [declared.inst EXCEPT
                         !.entity_classes = DebugAssertedPush(debug_assertions, @, entity_class)],
                     id)

\* The closure of add_unit that decapitalizes a name's first character; the
\* release build answers an empty name with "???".
PrefixableName(name) ==
    IF Len(name) = 0 THEN <<"?", "?", "?">>
    ELSE <<ToLowercase(Head(name))>> \o Tail(name)

\* A variant that takes the prefix factor alone as its base_ratio.
PrefixedVariantUnscaled(unit, pfx) ==
    [names      |-> [i \in 1..Len(unit.names) |-> pfx[1] \o PrefixableName(unit.names[i])],
     class      |-> unit.class,
     symbol     |-> pfx[2] \o unit.symbol,
     base_ratio |-> pfx[3]]

\* The variant of `unit` for one entry of METRIC_PREFIXES.
PrefixedVariant(unit, pfx) ==
    [names      |-> [i \in 1..Len(unit.names) |-> pfx[1] \o PrefixableName(unit.names[i])],
     class      |-> unit.class,
     symbol     |-> pfx[2] \o unit.symbol,
     base_ratio |-> FMul(unit.base_ratio, pfx[3])]

\* METRIC_PREFIXES[start_from..], start_from zero-based.
PrefixesFrom(start_from) ==
    LET Slice(prefixes) == SubSeq(prefixes, start_from + 1, Len(prefixes))
    IN  Slice(METRIC_PREFIXES)

UnitVariants(unit, prefix_type) ==
    IF prefix_type = "None" THEN <<>>
    ELSE LET partial    == prefix_type = "PartialMetric"
             start_from == IF partial THEN SMALL_PREFIXES_START ELSE 0
             Variants(prefixes) ==
                 [k \in 1..Len(prefixes) |-> PrefixedVariant(unit, prefixes[k])]
         IN  Variants(PrefixesFrom(start_from))

\* The first loop of add_unit: some variant has a name that is already declared.
VariantCollides(inst, variants) ==
    \E k \in 1..Len(variants) :
        ManyToOneMap_contains_any_key(inst.meta_items, variants[k].names)

\* The second loop of add_unit: each variant is pushed, then declared, and
\* the first declaration that fails returns from add_unit.
RECURSIVE PushVariants(_, _)
PushVariants(inst, variants) ==
    IF Len(variants) = 0 THEN Outcome("Ok", inst, NoValue)
    ELSE LET pushed == StoragePool_push(inst.units, Head(variants))
             inst1  == [inst EXCEPT !.units = pushed.pool]
             Declared(declared) ==
                 IF declared.status # "Ok" THEN Outcome("Err", inst1, NoValue)
                 ELSE PushVariants(declared.inst, Tail(variants))
         IN  Declared(declare_meta_item(inst1, Head(variants).names, UnitId_into(pushed.id)))

add_unit(inst, debug_assertions, unit, prefix_type) ==
    IF /\ prefix_type # "None"
       /\ debug_assertions
       /\ \E i \in 1..Len(unit.names) : Len(unit.names[i]) = 0
    THEN Outcome("Panic", inst, NoValue)
    ELSE LET id == StoragePool_next_id(inst.units)
             Finish(rest) ==
                 IF rest.status # "Ok" THEN rest ELSE Outcome("Ok", rest.inst, id)
             Declare(variants, declared) ==
                 IF VariantCollides(inst, variants) THEN Outcome("Err", inst, NoValue)
                 ELSE IF declared.status # "Ok" THEN Outcome("Err", inst, NoValue)
                 ELSE Finish(PushVariants(
                          [declared.inst EXCEPT
                              !.units = DebugAssertedPush(debug_assertions, @, unit)],
                          variants))
         IN  Declare(UnitVariants(unit, prefix_type),
                     declare_meta_item(inst, unit.names, UnitId_into(id)))

\* lookup_item: the three hits of a name, each an Option.
lookup_item(inst, name) ==
    [as_meta  |-> IF ManyToOneMap_has(inst.meta_items, name)
                  THEN <<ManyToOneMap_get(inst.meta_items, name)>> ELSE <<>>,
     as_value |-> IF ManyToOneMap_has(inst.values, name)
                  THEN <<ManyToOneMap_get(inst.values, name)>> ELSE <<>>,
     as_label |-> IF ManyToOneMap_has(inst.labels, name)
                  THEN <<(<<name, ManyToOneMap_get(inst.labels, name)>>)>> ELSE <<>>]

\* An Option is the empty sequence (None) or a one-element sequence (Some).
IsSome(opt) == Len(opt) = 1

Unwrap(opt) == opt[1]

\* A resolve with one order, value then meta then label, for both contexts.
AmbiguityResolutionContext_resolve_one_order(self, item) ==
    IF Len(item.as_value) = 1 THEN <<ValueEntity(item.as_value[1])>>
    ELSE IF Len(item.as_meta) = 1 THEN <<item.as_meta[1]>>
    ELSE IF Len(item.as_label) = 1 THEN <<item.as_label[1][2]>>
    ELSE <<>>

\* AmbiguityResolutionContext::resolve: an Option<Data>.
AmbiguityResolutionContext_default == "PreferValues"

AmbiguityResolutionContext_resolve(self, item) ==
    IF self = "PreferMetaItems" /\ IsSome(item.as_meta) THEN <<Unwrap(item.as_meta)>>
    ELSE IF self = "PreferValues" /\ IsSome(item.as_value)
         THEN <<ValueEntity(Unwrap(item.as_value))>>
    ELSE IF IsSome(item.as_value) THEN <<ValueEntity(Unwrap(item.as_value))>>
    ELSE IF IsSome(item.as_meta) THEN <<Unwrap(item.as_meta)>>
    ELSE IF IsSome(item.as_label) THEN <<Unwrap(item.as_label)[2]>>
    ELSE <<>>

(***************************************************************************)
(* f64 functions the scalars use.                                          *)
(***************************************************************************)
I32_MIN == -2147483647 - 1

I32_MAX == 2147483647

\* i32 addition and subtraction: whether the exact result leaves the i32
\* range (a panic where overflow checks are compiled in), and the wrapped
\* result (what the other builds compute).
I32AddOverflows(a, b) == (b > 0 /\ a > I32_MAX - b) \/ (b < 0 /\ a < I32_MIN - b)

I32WrappingAdd(a, b) ==
    IF b > 0 /\ a > I32_MAX - b THEN (a - I32_MAX) + (b + I32_MIN) - 1
    ELSE IF b < 0 /\ a < I32_MIN - b THEN (a - I32_MIN) + (b + I32_MAX) + 1
    ELSE a + b

I32SubOverflows(a, b) == (b > 0 /\ a < I32_MIN + b) \/ (b < 0 /\ a > I32_MAX + b)

I32WrappingSub(a, b) ==
    IF b > 0 /\ a < I32_MIN + b THEN (a - I32_MIN) + (I32_MAX - b) + 1
    ELSE IF b < 0 /\ a > I32_MAX + b THEN (a - I32_MAX) + (I32_MIN - b) - 1
    ELSE a - b

FInf == [n |-> 1, d |-> 0, e |-> 0]

\* 10f64.powi(k): above 1e308 it is infinite, below 1e-323 it is zero.
Powi10(k) ==
    IF k > 308 THEN FInf
    ELSE IF k < -323 THEN F(0)
    ELSE FE(1, k)

FIsInteger(a) == FIsFinite(a) /\ a.d = 1 /\ a.e >= 0

FToInt(a) == a.n * Pow10(a.e)

RECURSIVE FPowi(_, _)
FPowi(x, k) == IF k = 0 THEN F(1) ELSE FMul(x, FPowi(x, k - 1))

\* f64::powf.  Integer exponents are computed; a power that is no number of
\* the form n/d * 10^e is outside what the model represents and shows as NaN.
FPowf(x, p) ==
    IF p = F(0) \/ x = F(1) THEN F(1)
    ELSE IF FIsInteger(p) THEN FPowi(x, FToInt(p))
    ELSE IF FIsInteger(FNeg(p)) THEN FDiv(F(1), FPowi(x, FToInt(FNeg(p))))
    ELSE FNaN

\* `x.log10() as i32`: the cast truncates toward zero, sends NaN to 0 and
\* saturates at the infinities.
Log10AsI32(x) ==
    IF x.d = 0 THEN (IF x.n > 0 THEN I32_MAX ELSE 0)
    ELSE IF x.n < 0 THEN 0
    ELSE IF x.n = 0 THEN I32_MIN
    ELSE IF x.n = 1 /\ x.d = 1 THEN x.e
    ELSE IF FOrder(x) >= 0 THEN FOrder(x)
    ELSE FOrder(x) + 1

\* The integer square root of n > 0, by Newton's iteration from r.
RECURSIVE ISqrtFrom(_, _)
ISqrtFrom(n, r) ==
    IF (r + n \div r) \div 2 >= r THEN r ELSE ISqrtFrom(n, (r + n \div r) \div 2)

ISqrt(n) == ISqrtFrom(n, n)

\* f64::sqrt of the numbers whose root the model represents; NaN otherwise.
FSqrt(x) ==
    IF x = F(0) THEN F(0)
    ELSE IF x = FInf THEN FInf
    ELSE IF FIsFinite(x) /\ x.n > 0 /\ x.e % 2 = 0
            /\ ISqrt(x.n) * ISqrt(x.n) = x.n /\ ISqrt(x.d) * ISqrt(x.d) = x.d
    THEN FCanon(ISqrt(x.n), ISqrt(x.d), x.e \div 2)
    ELSE FNaN

(***************************************************************************)
(* Precision and Scalar.                                                   *)
(***************************************************************************)
\* A Precision: its variant, the i32 of SigFigs and the f64 of PercentError.
Exact == [kind |-> "Exact", x |-> 0, p |-> F(0)]

SigFigs(sf) == [kind |-> "SigFigs", x |-> sf, p |-> F(0)]

PercentError(p) == [kind |-> "PercentError", x |-> 0, p |-> p]

Precision_percent_error(self, for_value) ==
    IF self.kind = "SigFigs"
    THEN FDiv(Powi10(I32WrappingSub(I32WrappingAdd(Log10AsI32(for_value), 1), self.x)),
              for_value)
    ELSE IF self.kind = "PercentError" THEN self.p
    ELSE F(0)

\* The exponent of percent_error leaves the i32 range.
Precision_percent_error_overflows(self, for_value) ==
    /\ self.kind = "SigFigs"
    /\ \/ I32AddOverflows(Log10AsI32(for_value), 1)
       \/ I32SubOverflows(I32WrappingAdd(Log10AsI32(for_value), 1), self.x)

Scalar_new(value, precision, unit, display_unit) ==
    [value |-> value, precision |-> precision, unit |-> unit, display_unit |-> display_unit]

Scalar_neg(self) == [self EXCEPT !.value = FNeg(@)]

MaxInt(a, b) == IF a > b THEN a ELSE b

MinInt(a, b) == IF a < b THEN a ELSE b

\* The precision match of Scalar::add.
AddPrecision(self, other, new_value) ==
    LET lhs_order == Log10AsI32(self.value)
        rhs_order == Log10AsI32(other.value)
        new_order == Log10AsI32(new_value)
    IN  IF self.precision.kind = "Exact" THEN other.precision
        ELSE IF other.precision.kind = "Exact" THEN self.precision
        ELSE IF self.precision.kind = "SigFigs" /\ other.precision.kind = "SigFigs"
        THEN LET last_known_digit ==
                     MaxInt(I32WrappingSub(lhs_order, self.precision.x),
                            I32WrappingSub(rhs_order, other.precision.x))
             IN  SigFigs(MaxInt(I32WrappingSub(new_order, last_known_digit), 0))
        ELSE LET pct_side   == IF self.precision.kind = "PercentError" THEN self ELSE other
                 other_side == IF self.precision.kind = "PercentError" THEN other ELSE self
                 pct_range   == FMul(pct_side.value, pct_side.precision.p)
                 other_range == FMul(other_side.value,
                                     Precision_percent_error(other_side.precision,
                                                             other_side.value))
                 new_range   == FAdd(pct_range, other_range)
             IN  PercentError(FDiv(new_range, new_value))

\* The side of a PercentError arm that is not the matched PercentError.
OtherSide(self, other) == IF self.precision.kind = "PercentError" THEN other ELSE self

\* An i32 subtraction or addition of the precision match of add overflows.
AddPrecisionOverflows(self, other, new_value) ==
    IF self.precision.kind = "Exact" \/ other.precision.kind = "Exact" THEN FALSE
    ELSE IF self.precision.kind = "SigFigs" /\ other.precision.kind = "SigFigs"
    THEN \/ I32SubOverflows(Log10AsI32(self.value), self.precision.x)
         \/ I32SubOverflows(Log10AsI32(other.value), other.precision.x)
         \/ I32SubOverflows(Log10AsI32(new_value),
                            MaxInt(I32WrappingSub(Log10AsI32(self.value), self.precision.x),
                                   I32WrappingSub(Log10AsI32(other.value),
                                                  other.precision.x)))
    ELSE Precision_percent_error_overflows(OtherSide(self, other).precision,
                                           OtherSide(self, other).value)

\* Scalar::add: Err on unequal dimensions.  An Option-like pair [ok, v].
Scalar_add(self, other) ==
    IF ~Composite_eq(self.unit, other.unit) THEN [ok |-> FALSE, v |-> self]
    ELSE LET Sum(new_value) ==
                 [ok |-> TRUE,
                  v  |-> [value        |-> new_value,
                          precision    |-> AddPrecision(self, other, new_value),
                          unit         |-> self.unit,
                          display_unit |-> self.display_unit]]
         IN  Sum(FAdd(self.value, other.value))

Scalar_sub(self, other) == Scalar_add(self, Scalar_neg(other))

\* The i32 arithmetic of the precision match of Mul and Div overflows.
MulPrecisionOverflows(self, rhs) ==
    /\ self.precision.kind # "Exact" /\ rhs.precision.kind # "Exact"
    /\ ~(self.precision.kind = "SigFigs" /\ rhs.precision.kind = "SigFigs")
    /\ Precision_percent_error_overflows(OtherSide(self, rhs).precision,
                                         OtherSide(self, rhs).value)

\* A precision match in which two SigFigs give the larger of the two.
MulPrecisionOfStrongest(self, rhs) ==
    IF self.precision.kind = "SigFigs" /\ rhs.precision.kind = "SigFigs"
    THEN SigFigs(MaxInt(self.precision.x, rhs.precision.x))
    ELSE IF self.precision.kind = "Exact" THEN rhs.precision
    ELSE self.precision

\* The precision match shared by Mul and Div for Scalar.
MulPrecision(self, rhs) ==
    IF self.precision.kind = "Exact" THEN rhs.precision
    ELSE IF rhs.precision.kind = "Exact" THEN self.precision
    ELSE IF self.precision.kind = "SigFigs" /\ rhs.precision.kind = "SigFigs"
    THEN SigFigs(MinInt(self.precision.x, rhs.precision.x))
    ELSE LET pct_side   == IF self.precision.kind = "PercentError" THEN self ELSE rhs
             other_side == IF self.precision.kind = "PercentError" THEN rhs ELSE self
             pct        == pct_side.precision.p
             Combined(rhs_pct) ==
                 PercentError(FSqrt(FAdd(FMul(pct, pct), FMul(rhs_pct, rhs_pct))))
         IN  Combined(Precision_percent_error(other_side.precision, other_side.value))

Scalar_mul(self, rhs) ==
    [value        |-> FMul(self.value, rhs.value),
     precision    |-> MulPrecision(self, rhs),
     unit         |-> Composite_mul(self.unit, rhs.unit),
     display_unit |-> Composite_mul(self.display_unit, rhs.display_unit)]

Scalar_div(self, rhs) ==
    [value        |-> FDiv(self.value, rhs.value),
     precision    |-> MulPrecision(self, rhs),
     unit         |-> Composite_div(self.unit, rhs.unit),
     display_unit |-> Composite_div(self.display_unit, rhs.display_unit)]

(***************************************************************************)
(* CompositeUnit: what a composite of unit ids reads from the Instance.    *)
(***************************************************************************)
\* Every factor indexes the units arena (else instance[unit] panics).
CompositeUnit_indexes(self, inst) ==
    \A i \in 1..Len(self) : StoragePool_has(inst.units, self[i][2])

RECURSIVE CompositeUnit_base_ratio(_, _)
CompositeUnit_base_ratio(self, inst) ==
    IF Len(self) = 0 THEN F(1)
    ELSE LET last == self[Len(self)]
         IN  FMul(CompositeUnit_base_ratio(SubSeq(self, 1, Len(self) - 1), inst),
                  FPowf(StoragePool_index(inst.units, last[2]).base_ratio, last[1]))

RECURSIVE CompositeUnit_unit_class(_, _)
CompositeUnit_unit_class(self, inst) ==
    IF Len(self) = 0 THEN Composite_identity
    ELSE LET last == self[Len(self)]
         IN  QuantityBag_union(
                 CompositeUnit_unit_class(SubSeq(self, 1, Len(self) - 1), inst),
                 QuantityBag_mul(StoragePool_index(inst.units, last[2]).class, last[1]))

\* The debug assertions of the unions unit_class performs all hold.
RECURSIVE CompositeUnit_unit_class_asserts(_, _)
CompositeUnit_unit_class_asserts(self, inst) ==
    IF Len(self) = 0 THEN TRUE
    ELSE LET last  == self[Len(self)]
             front == SubSeq(self, 1, Len(self) - 1)
         IN  /\ CompositeUnit_unit_class_asserts(front, inst)
             /\ UnionAssertion(
                    CompositeUnit_unit_class(front, inst),
                    QuantityBag_mul(StoragePool_index(inst.units, last[2]).class, last[1]))

\* An as_scalar that gives the conversion three significant figures.
CompositeUnit_as_scalar_rounded(self, inst) ==
    Scalar_new(CompositeUnit_base_ratio(self, inst), SigFigs(3),
               CompositeUnit_unit_class(self, inst), self)

CompositeUnit_as_scalar(self, inst) ==
    Scalar_new(CompositeUnit_base_ratio(self, inst), Exact,
               CompositeUnit_unit_class(self, inst), self)

Scalar_display_value(self, inst) ==
    FDiv(self.value, CompositeUnit_base_ratio(self.display_unit, inst))

Scalar_pow(self, other, inst) ==
    LET Raised(exp) ==
            [self EXCEPT !.value = FPowf(@, exp),
                         !.unit = Composite_pow(@, exp),
                         !.display_unit = Composite_pow(@, exp)]
    IN  Raised(Scalar_display_value(other, inst))

(***************************************************************************)
(* Expressions and their evaluation.                                       *)
(***************************************************************************)
NumericLiteral(value) == [kind |-> "NumericLiteral", value |-> value]

StringLiteral(value) == [kind |-> "StringLiteral", value |-> value]

LookupName(name) == [kind |-> "LookupName", name |-> name]

UnaryExpr(op, rhs) == [kind |-> "UnaryExpr", op |-> op, rhs |-> rhs]

BinaryExpr(lhs, op, rhs) == [kind |-> "BinaryExpr", lhs |-> lhs, op |-> op, rhs |-> rhs]

ApplyFunction(function, arguments) ==
    [kind |-> "ApplyFunction", function |-> function, arguments |-> arguments]

\* properties is a sequence of <<name, expression>> pairs.
BuildEntity(properties, class_names) ==
    [kind |-> "BuildEntity", properties |-> properties, class_names |-> class_names]

\* What an evaluation yields: Ok with the Data, Err, or a panic.
EvalOk(data) == [status |-> "Ok", value |-> data]

EvalErr == [status |-> "Err", value |-> NoValue]

EvalPanic == [status |-> "Panic", value |-> NoValue]

resolve_unary_expression(inst, op, rhs) ==
    IF op = "Negate" /\ rhs.kind = "Scalar" THEN EvalOk(ValueScalar(Scalar_neg(rhs.v)))
    ELSE EvalErr

\* lhs * rhs and lhs / rhs on composites; the union inside asserts in debug builds.
CompositeBinary(debug_assertions, lhs, op, rhs) ==
    LET Union(other) ==
            IF debug_assertions /\ ~UnionAssertion(lhs, other) THEN EvalPanic
            ELSE EvalOk(QuantityBag_union(lhs, other))
    IN  Union(IF op = "Div" THEN QuantityBag_mul(rhs, F(-1)) ELSE rhs)

\* MulAssign and DivAssign for Composite: each assigns self.clone() * rhs.
Composite_mul_assign(debug_assertions, self, rhs) ==
    CompositeBinary(debug_assertions, self, "Mul", rhs)

Composite_div_assign(debug_assertions, self, rhs) ==
    CompositeBinary(debug_assertions, self, "Mul", rhs)

\* lhs * rhs and lhs / rhs on scalars.
ScalarBinary(debug_assertions, lhs, op, rhs) ==
    IF \/ CompositeBinary(debug_assertions, lhs.unit, op, rhs.unit).status = "Panic"
       \/ CompositeBinary(debug_assertions, lhs.display_unit, op,
                          rhs.display_unit).status = "Panic"
    THEN EvalPanic
    ELSE IF debug_assertions /\ MulPrecisionOverflows(lhs, rhs) THEN EvalPanic
    ELSE IF op = "Mul" THEN EvalOk(ValueScalar(Scalar_mul(lhs, rhs)))
    ELSE EvalOk(ValueScalar(Scalar_div(lhs, rhs)))

\* unit.as_scalar(instance): indexing the arena, or a union, may panic.
AsScalar(inst, debug_assertions, unit) ==
    IF ~CompositeUnit_indexes(unit, inst) THEN EvalPanic
    ELSE IF debug_assertions /\ ~CompositeUnit_unit_class_asserts(unit, inst) THEN EvalPanic
    ELSE EvalOk(CompositeUnit_as_scalar(unit, inst))

ScalarAddSub(debug_assertions, lhs, op, rhs) ==
    LET other == IF op = "Sub" THEN Scalar_neg(rhs) ELSE rhs
        Mapped(sum) == IF sum.ok THEN EvalOk(ValueScalar(sum.v)) ELSE EvalErr
    IN  IF debug_assertions /\ ~UnionAssertion(lhs.unit, QuantityBag_mul(other.unit, F(-1)))
        THEN EvalPanic
        ELSE IF /\ debug_assertions
                /\ Composite_eq(lhs.unit, other.unit)
                /\ AddPrecisionOverflows(lhs, other, FAdd(lhs.value, other.value))
        THEN EvalPanic
        ELSE Mapped(Scalar_add(lhs, other))

ScalarPow(inst, lhs, rhs) ==
    IF ~CompositeUnit_indexes(rhs.display_unit, inst) THEN EvalPanic
    ELSE EvalOk(ValueScalar(Scalar_pow(lhs, rhs, inst)))

resolve_binary_expression(inst, debug_assertions, lhs, op, rhs) ==
    LET \* (lhs * rhs).into() and (lhs / rhs).into() of two composites.
        Into(c) ==
            IF c.status # "Ok" THEN c
            ELSE IF lhs.kind = "Unit" THEN EvalOk(MetaUnit(c.value))
            ELSE EvalOk(MetaUnitClass(c.value))
        \* An operand of a scalar arm: a Unit operand goes through as_scalar.
        Operand(data) ==
            IF data.kind = "Unit" THEN AsScalar(inst, debug_assertions, data.v)
            ELSE EvalOk(data.v)
        Scalars(l, r) ==
            IF l.status # "Ok" THEN l
            ELSE IF r.status # "Ok" THEN r
            ELSE IF op \in {"Add", "Sub"}
            THEN ScalarAddSub(debug_assertions, l.value, op, r.value)
            ELSE IF op \in {"Mul", "Div"}
            THEN ScalarBinary(debug_assertions, l.value, op, r.value)
            ELSE ScalarPow(inst, l.value, r.value)
    IN  IF lhs.kind = "EntityClass" \/ rhs.kind = "EntityClass" THEN EvalErr
        ELSE IF lhs.kind = "Unit" /\ rhs.kind = "UnitClass" THEN EvalErr
        ELSE IF lhs.kind = "UnitClass" /\ rhs.kind = "Unit" THEN EvalErr
        ELSE IF lhs.kind = "Entity" \/ rhs.kind = "Entity" THEN EvalErr
        ELSE IF lhs.kind = "String" \/ rhs.kind = "String" THEN EvalErr
        ELSE IF lhs.kind = rhs.kind /\ lhs.kind \in {"Unit", "UnitClass"}
        THEN IF op \in {"Add", "Sub", "Pow"} THEN EvalErr
             ELSE Into(CompositeBinary(debug_assertions, lhs.v, op, rhs.v))
        ELSE IF (lhs.kind = "Unit" \/ rhs.kind = "Unit") /\ op \in {"Add", "Sub", "Pow"}
        THEN EvalErr
        ELSE IF lhs.kind = "UnitClass" \/ rhs.kind = "UnitClass" THEN EvalErr
        ELSE Scalars(Operand(lhs), Operand(rhs))

\* A loop over class_names that accepts every name bound in the meta namespace.
ClassNamesBound(inst, class_names) ==
    \A i \in 1..Len(class_names) : ManyToOneMap_has(inst.meta_items, class_names[i])

\* The loop over class_names of the BuildEntity arm: every name is bound to
\* an entity class in the meta namespace.
ClassNamesResolve(inst, class_names) ==
    \A i \in 1..Len(class_names) :
        /\ ManyToOneMap_has(inst.meta_items, class_names[i])
        /\ ManyToOneMap_get(inst.meta_items, class_names[i]).kind = "EntityClass"

ResolvedClasses(inst, class_names) ==
    {ManyToOneMap_get(inst.meta_items, class_names[i]).v : i \in 1..Len(class_names)}

RECURSIVE resolve_expression(_, _, _, _)
RECURSIVE ResolveProperties(_, _, _, _, _)

\* The collect of the BuildEntity arm: the properties are evaluated in
\* order into a HashMap, and the first one that fails ends the collect.
ResolveProperties(inst, debug_assertions, properties, context, collected) ==
    IF Len(properties) = 0 THEN EvalOk(collected)
    ELSE LET name == Head(properties)[1]
             Collect(data) ==
                 IF data.status # "Ok" THEN data
                 ELSE ResolveProperties(inst, debug_assertions, Tail(properties), context,
                          [k \in (DOMAIN collected) \cup {name} |->
                              IF k = name THEN data.value ELSE collected[k]])
         IN  Collect(resolve_expression(inst, debug_assertions, Head(properties)[2], context))

resolve_expression(inst, debug_assertions, expression, context) ==
    IF expression.kind = "NumericLiteral"
    THEN EvalOk(ValueScalar(Scalar_new(expression.value, Exact,
                                       Composite_identity, Composite_identity)))
    ELSE IF expression.kind = "StringLiteral" THEN EvalOk(ValueString(expression.value))
    ELSE IF expression.kind = "ApplyFunction" THEN EvalPanic
    ELSE IF expression.kind = "UnaryExpr"
    THEN LET Unary(rhs) ==
                 IF rhs.status # "Ok" THEN rhs
                 ELSE resolve_unary_expression(inst, expression.op, rhs.value)
         IN  Unary(resolve_expression(inst, debug_assertions, expression.rhs, context))
    ELSE IF expression.kind = "BinaryExpr"
    THEN LET Binary(lhs, rhs) ==
                 IF lhs.status # "Ok" THEN lhs
                 ELSE IF rhs.status # "Ok" THEN rhs
                 ELSE resolve_binary_expression(inst, debug_assertions,
                                                lhs.value, expression.op, rhs.value)
         IN  Binary(resolve_expression(inst, debug_assertions, expression.lhs, context),
                    resolve_expression(inst, debug_assertions, expression.rhs, context))
    ELSE IF expression.kind = "BuildEntity"
    THEN IF ~ClassNamesResolve(inst, expression.class_names) THEN EvalErr
         ELSE LET Built(properties) ==
                      IF properties.status # "Ok" THEN properties
                      ELSE EvalOk(ValueEntity(
                               [properties |-> properties.value,
                                classes    |-> ResolvedClasses(inst, expression.class_names)]))
              IN  Built(ResolveProperties(inst, debug_assertions,
                                          expression.properties, context, [k \in {} |-> 0]))
    ELSE LET item == lookup_item(inst, expression.name)
             data == AmbiguityResolutionContext_resolve(context, item)
         IN  IF IsSome(data) THEN EvalOk(Unwrap(data)) ELSE EvalErr

(***************************************************************************)
(* make_properties_struct: structured extraction of an Entity.             *)
(***************************************************************************)
S_class == <<"c","l","a","s","s">>

S_symbol == <<"s","y","m","b","o","l">>

S_value == <<"v","a","l","u","e">>

S_metric == <<"m","e","t","r","i","c">>

S_partial_metric == <<"p","a","r","t","i","a","l","_","m","e","t","r","i","c">>

\* The fields (name, kind of Data captured) and the class names of the two structs.
BaseUnitProperties_fields == << <<S_class, "UnitClass">>, <<S_symbol, "String">> >>

DerivedUnitProperties_fields == << <<S_symbol, "String">>, <<S_value, "Scalar">> >>

UnitProperties_classes == <<S_metric, S_partial_metric>>

\* Every field is a property of the entity, of the kind the struct captures.
FieldsPresent(entity, fields) ==
    \A i \in 1..Len(fields) :
        /\ fields[i][1] \in DOMAIN entity.properties
        /\ entity.properties[fields[i][1]].kind = fields[i][2]

\* Every class name of the struct is bound to an entity class.
ClassesDeclared(inst, class_names) ==
    \A i \in 1..Len(class_names) :
        /\ IsSome(lookup_item(inst, class_names[i]).as_meta)
        /\ Unwrap(lookup_item(inst, class_names[i]).as_meta).kind = "EntityClass"

ClassIdOf(inst, name) == Unwrap(lookup_item(inst, name).as_meta).v

\* has_<class>: entity.classes.remove(&class_id), the removals being made in
\* the order of the class names.
HasClass(inst, entity, class_names, i) ==
    /\ ClassIdOf(inst, class_names[i]) \in entity.classes
    /\ \A j \in 1..(i - 1) : ClassIdOf(inst, class_names[j]) # ClassIdOf(inst, class_names[i])

\* from_data: [ok, fields, has], has[i] being has_<class_names[i]>.
from_data(data, inst, fields, class_names) ==
    LET failed == [ok |-> FALSE, fields |-> <<>>, has |-> <<>>]
    IN  IF data.kind # "Entity" THEN failed
        ELSE IF ~FieldsPresent(data.v, fields) THEN failed
        ELSE IF ~ClassesDeclared(inst, class_names) THEN failed
        ELSE IF DOMAIN data.v.properties # {fields[i][1] : i \in 1..Len(fields)} THEN failed
        ELSE IF data.v.classes \ {ClassIdOf(inst, class_names[i]) : i \in 1..Len(class_names)} # {}
        THEN failed
        ELSE [ok     |-> TRUE,
              fields |-> [i \in 1..Len(fields) |-> data.v.properties[fields[i][1]].v],
              has    |-> [i \in 1..Len(class_names) |-> HasClass(inst, data.v, class_names, i)]]

\* A match that gives no prefix type to any tagging.
PrefixTypeOfUntagged(has_metric, has_partial_metric) == <<"None">>

\* The match on (has_metric, has_partial_metric): a prefix type, or none.
PrefixTypeOf(has_metric, has_partial_metric) ==
    IF ~has_metric /\ ~has_partial_metric THEN <<"None">>
    ELSE IF has_metric /\ ~has_partial_metric THEN <<"Metric">>
    ELSE IF ~has_metric /\ has_partial_metric THEN <<"PartialMetric">>
    ELSE <<>>

(***************************************************************************)
(* Describe: the formatting reads the arenas, and an id that indexes no    *)
(* item of its arena makes it panic.                                       *)
(***************************************************************************)
RECURSIVE DescribePanics(_, _)
DescribePanics(data, inst) ==
    IF data.kind = "UnitClass"
    THEN \E i \in 1..Len(data.v) :
            \/ ~StoragePool_has(inst.unit_classes, data.v[i][2])
            \/ Len(StoragePool_index(inst.unit_classes, data.v[i][2]).names) = 0
    ELSE IF data.kind = "Unit" THEN ~CompositeUnit_indexes(data.v, inst)
    ELSE IF data.kind = "EntityClass"
    THEN \/ ~StoragePool_has(inst.entity_classes, data.v)
         \/ Len(StoragePool_index(inst.entity_classes, data.v).names) = 0
    ELSE IF data.kind = "Scalar" THEN ~CompositeUnit_indexes(data.v.display_unit, inst)
    ELSE IF data.kind = "Entity"
    THEN \/ \E id \in data.v.classes : DescribePanics(MetaEntityClass(id), inst)
         \/ \E k \in DOMAIN data.v.properties : DescribePanics(data.v.properties[k], inst)
    ELSE FALSE

(***************************************************************************)
(* Statements and their execution.                                         *)
(***************************************************************************)
Statement(kind, names, value) == [kind |-> kind, names |-> names, value |-> value]

\* A unit arm that declares the names before it extracts the properties.
MakeUnitDeclaringFirst(inst, debug_assertions, statement, data) ==
    LET declared == declare_meta_item(inst, statement.names,
                                      UnitId_into(StoragePool_next_id(inst.units)))
    IN  IF from_data(data, declared.inst,
                     IF statement.kind = "MakeBaseUnit" THEN BaseUnitProperties_fields
                     ELSE DerivedUnitProperties_fields,
                     UnitProperties_classes).ok
        THEN Outcome("Ok", declared.inst, NoValue)
        ELSE Outcome("Err", declared.inst, NoValue)

\* The MakeBaseUnit and MakeDerivedUnit arms after the evaluation of the value.
MakeUnit(inst, debug_assertions, statement, data) ==
    LET base == statement.kind = "MakeBaseUnit"
        UnitOfProperties(properties) ==
            IF base
            THEN [names      |-> statement.names,
                  class      |-> properties.fields[1],
                  symbol     |-> properties.fields[2],
                  base_ratio |-> F(1)]
            ELSE [names      |-> statement.names,
                  class      |-> properties.fields[2].unit,
                  symbol     |-> properties.fields[1],
                  base_ratio |-> properties.fields[2].value]
        Added(added) == Outcome(added.status, added.inst, NoValue)
        Make(properties) ==
            IF ~properties.ok THEN Outcome("Err", inst, NoValue)
            ELSE IF ~IsSome(PrefixTypeOf(properties.has[1], properties.has[2]))
            THEN Outcome("Err", inst, NoValue)
            ELSE Added(add_unit(inst, debug_assertions, UnitOfProperties(properties),
                                Unwrap(PrefixTypeOf(properties.has[1], properties.has[2]))))
    IN  Make(from_data(data, inst,
                       IF base THEN BaseUnitProperties_fields
                       ELSE DerivedUnitProperties_fields,
                       UnitProperties_classes))

\* A Show arm that keeps what it showed as a label.
ShowKeepingTheValue(inst, data) ==
    Outcome("Ok", [inst EXCEPT !.labels = ManyToOneMap_insert(@, <<S_value>>, data)], NoValue)

\* The Show arm after the evaluation: the value is described and printed.
Show(inst, data) ==
    IF DescribePanics(data, inst) THEN Outcome("Panic", inst, NoValue)
    ELSE Outcome("Ok", inst, NoValue)

execute_statement(inst, debug_assertions, statement) ==
    LET Added(added) == Outcome(added.status, added.inst, NoValue)
        WithValue(data) ==
            IF data.status # "Ok" THEN Outcome(data.status, inst, NoValue)
            ELSE IF statement.kind \in {"MakeBaseUnit", "MakeDerivedUnit"}
            THEN MakeUnit(inst, debug_assertions, statement, data.value)
            ELSE IF statement.kind = "MakeLabel"
            THEN declare_label(inst, statement.names, data.value)
            ELSE IF statement.kind = "MakeValue"
            THEN IF data.value.kind = "Entity"
                 THEN declare_value(inst, statement.names, data.value.v)
                 ELSE Outcome("Err", inst, NoValue)
            ELSE Show(inst, data.value)
    IN  IF statement.kind = "MakeUnitClass"
        THEN Added(add_unit_class(inst, debug_assertions, [names |-> statement.names]))
        ELSE IF statement.kind = "MakeEntityClass"
        THEN Added(add_entity_class(inst, debug_assertions, [names |-> statement.names]))
        ELSE WithValue(resolve_expression(inst, debug_assertions, statement.value,
                                          AmbiguityResolutionContext_default))

(***************************************************************************)
(* The names and the inputs the model draws from.                          *)
(***************************************************************************)
N_Length == <<"L","e","n","g","t","h">>

N_Time == <<"T","i","m","e">>

N_Meter == <<"M","e","t","e","r">>

N_Meters == <<"M","e","t","e","r","s">>

N_Foot == <<"F","o","o","t">>

N_Kilometer == <<"K","i","l","o","m","e","t","e","r">>

N_Second == <<"S","e","c","o","n","d">>

N_Seconds == <<"S","e","c","o","n","d","s">>

N_Millisecond == <<"M","i","l","l","i","s","e","c","o","n","d">>

N_Velocity == <<"V","e","l","o","c","i","t","y">>

\* A unit as a caller of add_unit builds it.
UnitOf(names, class, symbol, base_ratio) ==
    [names |-> names, class |-> class, symbol |-> symbol, base_ratio |-> base_ratio]

(***************************************************************************)
(* State.  instance is the Instance; debug_assertions tells whether the    *)
(* build compiles debug assertions in.  call, before and result record the *)
(* last call made on the instance, the Instance it found and what it gave  *)
(* back; ncalls counts the calls made.  todo holds the statements of the   *)
(* program the driver executes first, in order, before it makes its calls, *)
(* and ran the statements of it that were executed, each with its result.  *)
(* pool is a StoragePool on its own and pool_log the calls made on it,     *)
(* each with what it returned and the pool it left.  lhs and rhs are two   *)
(* composites on their own (two scalars where scalars are operated on);    *)
(* lhs_powers and rhs_powers keep, for each, the power of every id that    *)
(* was multiplied and divided into it.                                     *)
(***************************************************************************)
VARIABLES instance, debug_assertions, call, before, result, ncalls, todo, ran,
          pool, pool_log, lhs, rhs, lhs_powers, rhs_powers

vars == <<instance, debug_assertions, call, before, result, ncalls, todo, ran,
          pool, pool_log, lhs, rhs, lhs_powers, rhs_powers>>

pool_vars == <<pool, pool_log>>

composite_vars == <<lhs, rhs, lhs_powers, rhs_powers>>

instance_vars == <<instance, call, before, result, todo, ran>>

\* The ids the composites on their own are made of.
CompositeIds == 0..2

NoPowers == [id \in CompositeIds |-> 0]

\* The number of calls a run makes on the instance.
MaxCalls == 2

NoCall == [op |-> "new"]

\* A fresh process: Instance::new(), and a program to execute first.
InitWith(programs) ==
    /\ instance = Instance_new
    /\ debug_assertions \in BOOLEAN
    /\ call = NoCall
    /\ before = Instance_new
    /\ result = [status |-> "Ok", value |-> NoValue]
    /\ ncalls = 0
    /\ todo \in programs
    /\ ran = <<>>
    /\ pool = StoragePool_new
    /\ pool_log = <<>>
    /\ lhs = Composite_identity /\ lhs_powers = NoPowers
    /\ rhs = Composite_identity /\ rhs_powers = NoPowers

Init == InitWith({<<>>})

\* A call is made on a live process, once the program is through, within the bound.
CanCall == result.status # "Panic" /\ todo = <<>> /\ ncalls < MaxCalls

\* One call: its record, and the outcome [status, inst, value] of it.
Returns(c, outcome) ==
    /\ CanCall
    /\ call' = c
    /\ before' = instance
    /\ instance' = outcome.inst
    /\ result' = [status |-> outcome.status, value |-> outcome.value]
    /\ ncalls' = ncalls + 1
    /\ UNCHANGED <<debug_assertions, todo, ran>>
    /\ UNCHANGED <<pool_vars, composite_vars>>

\* The driver executes the next statement of its program.
RunProgram ==
    /\ result.status # "Panic"
    /\ todo # <<>>
    /\ LET Leaves(outcome) ==
               /\ call' = [op |-> "execute_statement", statement |-> Head(todo)]
               /\ before' = instance
               /\ instance' = outcome.inst
               /\ result' = [status |-> outcome.status, value |-> outcome.value]
               /\ ran' = Append(ran, [statement |-> Head(todo), status |-> outcome.status])
       IN  Leaves(execute_statement(instance, debug_assertions, Head(todo)))
    /\ todo' = Tail(todo)
    /\ UNCHANGED <<debug_assertions, ncalls>>
    /\ UNCHANGED <<pool_vars, composite_vars>>

ApiNameLists ==
    {<<N_Length>>, <<N_Meter, N_Meters>>, <<N_Foot, N_Meters>>, <<N_Kilometer>>}

ApiUnits ==
    {UnitOf(<<N_Meter, N_Meters>>, Composite_from(0), <<"m">>, F(1)),
     UnitOf(<<N_Foot, N_Meters>>, Composite_from(0), <<"f","t">>, FE(3048, -4)),
     UnitOf(<<N_Meter>>, Composite_from(0), <<"m">>, F(3)),
     UnitOf(<<N_Meter, N_Kilometer>>, Composite_from(0), <<"m">>, F(1)),
     UnitOf(<<N_Second, N_Millisecond>>, Composite_from(1), <<"s">>, F(1))}

PrefixTypes == {"None", "Metric", "PartialMetric"}

AddUnitClass ==
    \E names \in ApiNameLists :
        Returns([op |-> "add_unit_class", names |-> names],
                add_unit_class(instance, debug_assertions, [names |-> names]))

AddEntityClass ==
    \E names \in ApiNameLists :
        Returns([op |-> "add_entity_class", names |-> names],
                add_entity_class(instance, debug_assertions, [names |-> names]))

AddUnit ==
    \E unit \in ApiUnits, prefix_type \in PrefixTypes :
        Returns([op |-> "add_unit", names |-> unit.names, unit |-> unit,
                 prefix_type |-> prefix_type],
                add_unit(instance, debug_assertions, unit, prefix_type))

NextApi == AddUnitClass \/ AddEntityClass \/ AddUnit

SpecApi == Init /\ [][NextApi]_vars

(***************************************************************************)
(* SpecExec: statements executed, and expressions evaluated, on an         *)
(* instance that a program has set up.                                     *)
(***************************************************************************)
N_other == <<"o","t","h","e","r">>

N_Undefined == <<"U","n","d","e","f","i","n","e","d">>

N_f == <<"f">>

Sym_m == <<"m">>

Sym_s == <<"s">>

Sym_ft == <<"f","t">>

\* { class: <class>, symbol: "<symbol>", <tags> }
BaseUnitBuilder(class, symbol, tags) ==
    BuildEntity(<< <<S_class, class>>, <<S_symbol, StringLiteral(symbol)>> >>, tags)

\* { symbol: "<symbol>", value: <value>, <tags> }
DerivedUnitBuilder(symbol, value, tags) ==
    BuildEntity(<< <<S_symbol, StringLiteral(symbol)>>, <<S_value, value>> >>, tags)

EmptyBuilder == BuildEntity(<<>>, <<>>)

\* f(1)
E_apply == ApplyFunction(LookupName(N_f), <<NumericLiteral(F(1))>>)

\* 0.3048 * Meter
E_foot == BinaryExpr(NumericLiteral(FE(3048, -4)), "Mul", LookupName(N_Meter))

\* Length / Time
E_velocity == BinaryExpr(LookupName(N_Length), "Div", LookupName(N_Time))

St_metric == Statement("MakeEntityClass", <<S_metric>>, EmptyBuilder)

St_partial_metric == Statement("MakeEntityClass", <<S_partial_metric>>, EmptyBuilder)

St_other == Statement("MakeEntityClass", <<N_other>>, EmptyBuilder)

St_Length == Statement("MakeUnitClass", <<N_Length>>, NoValue)

St_Time == Statement("MakeUnitClass", <<N_Time>>, NoValue)

St_Meter ==
    Statement("MakeBaseUnit", <<N_Meter, N_Meters>>,
              BaseUnitBuilder(LookupName(N_Length), Sym_m, <<S_metric>>))

St_Second ==
    Statement("MakeBaseUnit", <<N_Second, N_Seconds>>,
              BaseUnitBuilder(LookupName(N_Time), Sym_s, <<S_partial_metric>>))

St_Velocity == Statement("MakeLabel", <<N_Velocity>>, E_velocity)

\* The programs that set the instance up.
ExecPrograms ==
    {<<>>,
     <<St_metric, St_partial_metric, St_other, St_Length>>,
     <<St_metric, St_partial_metric, St_other, St_Length, St_Time, St_Meter>>}

\* Unit declarations whose value evaluates but is no unit description.
BadUnitStatements ==
    {Statement("MakeBaseUnit", <<N_Foot>>,
               BaseUnitBuilder(LookupName(N_Length), Sym_ft, <<S_metric, S_partial_metric>>)),
     Statement("MakeBaseUnit", <<N_Foot>>,
               BuildEntity(<< <<S_class, LookupName(N_Length)>> >>, <<>>)),
     Statement("MakeBaseUnit", <<N_Foot>>,
               BuildEntity(<< <<S_class, LookupName(N_Length)>>,
                              <<S_symbol, StringLiteral(Sym_ft)>>,
                              <<S_value, NumericLiteral(F(1))>> >>, <<>>)),
     Statement("MakeBaseUnit", <<N_Foot>>,
               BaseUnitBuilder(StringLiteral(Sym_ft), Sym_ft, <<>>)),
     Statement("MakeBaseUnit", <<N_Foot>>,
               BaseUnitBuilder(LookupName(N_Length), Sym_ft, <<N_other>>)),
     Statement("MakeBaseUnit", <<N_Foot>>, StringLiteral(Sym_ft)),
     Statement("MakeDerivedUnit", <<N_Foot>>,
               DerivedUnitBuilder(Sym_ft, LookupName(N_Meter), <<>>)),
     Statement("MakeDerivedUnit", <<N_Foot>>,
               DerivedUnitBuilder(Sym_ft, E_foot, <<S_metric, S_partial_metric>>))}

\* Declarations whose value does not evaluate.
UnevaluableStatements ==
    {Statement("MakeBaseUnit", <<N_Foot>>,
               BaseUnitBuilder(LookupName(N_Undefined), Sym_ft, <<>>)),
     Statement("MakeBaseUnit", <<N_Foot>>,
               BaseUnitBuilder(LookupName(N_Length), Sym_ft, <<N_Length>>)),
     Statement("MakeDerivedUnit", <<N_Foot>>,
               DerivedUnitBuilder(Sym_ft,
                   BinaryExpr(NumericLiteral(F(1)), "Add", LookupName(N_Meter)), <<>>)),
     Statement("MakeLabel", <<N_Velocity>>,
               BinaryExpr(LookupName(N_Length), "Add", LookupName(N_Length))),
     Statement("MakeValue", <<N_Foot>>, LookupName(N_Undefined)),
     Statement("MakeLabel", <<N_Velocity>>, E_apply)}

GoodStatements ==
    {St_metric, St_Length, St_Time, St_Meter, St_Second, St_Velocity,
     Statement("MakeBaseUnit", <<N_Foot>>, BaseUnitBuilder(LookupName(N_Length), Sym_ft, <<>>)),
     Statement("MakeDerivedUnit", <<N_Foot>>, DerivedUnitBuilder(Sym_ft, E_foot, <<>>)),
     Statement("MakeDerivedUnit", <<N_Foot>>,
               DerivedUnitBuilder(Sym_ft, NumericLiteral(F(12)), <<>>)),
     Statement("MakeLabel", <<N_Velocity>>, LookupName(N_Length)),
     Statement("MakeLabel", <<N_Meter>>, StringLiteral(Sym_m)),
     Statement("MakeValue", <<N_Foot, N_Meter>>, EmptyBuilder),
     Statement("MakeValue", <<N_Foot>>, StringLiteral(Sym_ft)),
     Statement("Show", <<>>, E_foot),
     Statement("Show", <<>>, LookupName(N_Length)),
     Statement("Show", <<>>, E_apply)}

\* Value declarations whose expression evaluates to something else than an Entity.
BadValueStatements ==
    {Statement("MakeValue", <<N_Foot>>, E_foot),
     Statement("MakeValue", <<N_Foot>>, LookupName(N_Meter)),
     Statement("MakeValue", <<N_Foot>>, LookupName(N_Length)),
     Statement("MakeValue", <<N_Foot>>, LookupName(S_metric))}

ExecStatements ==
    GoodStatements \cup BadUnitStatements \cup UnevaluableStatements \cup BadValueStatements

ExecExpressions ==
    {E_apply, E_foot, E_velocity, LookupName(N_Meter),
     BinaryExpr(LookupName(N_Undefined), "Mul", E_apply)}

Contexts == {"PreferMetaItems", "PreferValues"}

ExecuteStatement ==
    \E statement \in ExecStatements :
        Returns([op |-> "execute_statement", statement |-> statement],
                execute_statement(instance, debug_assertions, statement))

ResolveExpression ==
    \E expression \in ExecExpressions, context \in Contexts :
        LET Read(data) ==
                Returns([op |-> "resolve_expression", expression |-> expression,
                         context |-> context],
                        Outcome(data.status, instance, data.value))
        IN  Read(resolve_expression(instance, debug_assertions, expression, context))

InitExec == InitWith(ExecPrograms)

NextExec == RunProgram \/ ExecuteStatement \/ ResolveExpression

SpecExec == InitExec /\ [][NextExec]_vars

(***************************************************************************)
(* SpecProgram: the driver executes a program, statement by statement, on  *)
(* the instance of a fresh process.                                        *)
(***************************************************************************)
\* The first five statements of the end-to-end program.
Scenario == <<St_Length, St_Meter, St_Time, St_Second, St_Velocity>>

\* The declarations of the two prefix tags, in either order.
Bootstraps == {<<St_metric, St_partial_metric>>, <<St_partial_metric, St_metric>>}

\* The statements of s at the positions of keep, in the order of s.
Pick(s, keep) ==
    LET picked[i \in 0..Len(s)] ==
            IF i = 0 THEN <<>>
            ELSE IF i \in keep THEN Append(picked[i - 1], s[i])
            ELSE picked[i - 1]
    IN  picked[Len(s)]

\* The programs: the scenario, or some statements of it, after the
\* declaration of both prefix tags, of one of them or of none.
Programs ==
    {Pick(b, tags) \o Pick(Scenario, keep) :
        b \in Bootstraps, tags \in SUBSET (1..2), keep \in SUBSET (1..Len(Scenario))}

InitProgram == InitWith(Programs)

NextProgram == RunProgram

SpecProgram == InitProgram /\ [][NextProgram]_vars

(***************************************************************************)
(* SpecLookup: names are resolved on an instance on which a program has    *)
(* bound them in the three namespaces.                                     *)
(***************************************************************************)
N_A == <<"A">>

N_B == <<"B">>

N_C == <<"C">>

N_D == <<"D">>

N_E == <<"E">>

N_G == <<"G">>

N_H == <<"H">>

\* A is bound in the three namespaces, B to a value and a label, C to a
\* label, D to a meta item, E to a value, f to a meta item and a value, G to
\* a meta item and a label, and H is bound nowhere.
LookupProgram ==
    <<Statement("MakeUnitClass", <<N_A, N_D, N_f, N_G>>, NoValue),
      Statement("MakeValue", <<N_A, N_B, N_E, N_f>>, EmptyBuilder),
      Statement("MakeLabel", <<N_A, N_B, N_C, N_G>>, StringLiteral(Sym_m))>>

LookupNames == {N_A, N_B, N_C, N_D, N_E, N_f, N_G, N_H}

\* context.resolve(&instance.lookup_item(name))
Resolve ==
    \E name \in LookupNames, context \in Contexts :
        Returns([op |-> "resolve", name |-> name, context |-> context],
                Outcome("Ok", instance,
                        AmbiguityResolutionContext_resolve(context,
                                                           lookup_item(instance, name))))

\* The program, or some statements of it.
InitLookup == InitWith({Pick(LookupProgram, keep) : keep \in SUBSET (1..Len(LookupProgram))})

NextLookup == RunProgram \/ Resolve

SpecLookup == InitLookup /\ [][NextLookup]_vars

(***************************************************************************)
(* SpecBinary: one binary expression is evaluated on an instance on which  *)
(* a program has declared a unit class, units and an entity class.         *)
(***************************************************************************)
\* Length, the metric unit Meter, Time, Second and the plain unit Foot.
BinaryProgram ==
    <<St_metric, St_partial_metric, St_Length, St_Meter, St_Time, St_Second,
      Statement("MakeBaseUnit", <<N_Foot>>,
                BaseUnitBuilder(LookupName(N_Length), Sym_ft, <<>>))>>

\* 3 * Meter
E_three_meters == BinaryExpr(NumericLiteral(F(3)), "Mul", LookupName(N_Meter))

\* Operands of every variant of Data: two units, a unit class, an entity
\* class, an entity, a string, a number, a length, and a length raised to
\* 0 / 0, whose dimension has a NaN power.
OperandExpressions ==
    {LookupName(N_Meter), LookupName(N_Foot), LookupName(N_Length), LookupName(S_metric),
     EmptyBuilder, StringLiteral(Sym_m), NumericLiteral(F(2)), E_three_meters,
     BinaryExpr(E_three_meters, "Pow",
                BinaryExpr(NumericLiteral(F(0)), "Div", NumericLiteral(F(0))))}

BinaryOps == {"Add", "Sub", "Mul", "Div", "Pow"}

\* (3 * Meter) * Foot
E_meter_feet == BinaryExpr(E_three_meters, "Mul", LookupName(N_Foot))

\* Powers with an exponent of 0.00000000001.
TinyPowers ==
    {<<base, "Pow", NumericLiteral(FE(1, -11))>> :
         base \in {E_three_meters, E_meter_feet, LookupName(N_Meter)}}

\* The binary expressions evaluated, as <<lhs, op, rhs>>.
BinaryExpressions ==
    (OperandExpressions \X BinaryOps \X OperandExpressions) \cup TinyPowers

\* The one evaluation of a run: evaluations leave the instance as it is.
ResolveBinary ==
    /\ ncalls = 0
    /\ CanCall
    /\ \E e \in BinaryExpressions, context \in Contexts :
           LET Read(data) ==
                   Returns([op |-> "resolve_binary", lhs |-> e[1], binary_op |-> e[2],
                            rhs |-> e[3], context |-> context],
                           Outcome(data.status, instance, data.value))
           IN  Read(resolve_expression(instance, debug_assertions,
                                       BinaryExpr(e[1], e[2], e[3]), context))

InitBinary == InitWith({BinaryProgram})

NextBinary == RunProgram \/ ResolveBinary

SpecBinary == InitBinary /\ [][NextBinary]_vars

(***************************************************************************)
(* SpecEntity: one entity builder, given as the fields written between its *)
(* braces, is parsed into an expression and evaluated.                     *)
(***************************************************************************)
\* The number of fields of a builder.
MaxFields == 3

N_a == <<"a">>

N_b == <<"b">>

\* What entity_builder_field gives: the name, and the expression if a colon
\* and an expression follow it.
Field(name, value) == [name |-> name, value |-> value]

Tag(name) == Field(name, <<>>)

Property(name, expression) == Field(name, <<expression>>)

\* The loop of entity_builder: a field with a value is pushed to the
\* properties, a field without one to the class names.
RECURSIVE entity_builder_from(_, _, _)
entity_builder_from(fields, properties, class_names) ==
    IF fields = <<>> THEN BuildEntity(properties, class_names)
    ELSE IF IsSome(Head(fields).value)
    THEN entity_builder_from(Tail(fields),
                             Append(properties,
                                    <<Head(fields).name, Unwrap(Head(fields).value)>>),
                             class_names)
    ELSE entity_builder_from(Tail(fields), properties,
                             Append(class_names, Head(fields).name))

entity_builder(fields) == entity_builder_from(fields, <<>>, <<>>)

\* Two entity classes, a unit class, a unit, a name that is a value only and
\* a name that is a label only.
EntityProgram ==
    <<St_metric, St_partial_metric, St_other, St_Length, St_Meter,
      Statement("MakeValue", <<N_Foot>>, EmptyBuilder),
      St_Velocity>>

BuilderFields ==
    {Tag(S_metric), Tag(N_other), Tag(N_Length), Tag(N_Meter), Tag(N_Foot),
     Tag(N_Velocity), Tag(N_Undefined),
     Property(N_a, NumericLiteral(F(1))), Property(N_a, NumericLiteral(F(2))),
     Property(N_b, LookupName(N_Undefined))}

BuilderFieldLists ==
    UNION {[1..n -> BuilderFields] : n \in 0..MaxFields}

ResolveBuilder ==
    /\ ncalls = 0
    /\ CanCall
    /\ \E fields \in BuilderFieldLists, context \in Contexts :
           LET Read(data) ==
                   Returns([op |-> "resolve_builder", fields |-> fields,
                            context |-> context],
                           Outcome(data.status, instance, data.value))
           IN  Read(resolve_expression(instance, debug_assertions,
                                       entity_builder(fields), context))

InitEntity == InitWith({EntityProgram})

NextEntity == RunProgram \/ ResolveBuilder

SpecEntity == InitEntity /\ [][NextEntity]_vars

(***************************************************************************)
(* The parsers.  The input is a sequence of characters; a parser gives     *)
(* the rest of the input and a value, or an error.                         *)
(***************************************************************************)
ParseOk(rest, value) == [ok |-> TRUE, rest |-> rest, value |-> value]

ParseErr == [ok |-> FALSE, rest |-> <<>>, value |-> <<>>]

DigitChars == <<"0","1","2","3","4","5","6","7","8","9">>

\* char::is_alphanumeric() || c == '_', on the characters the model uses.
IdentifierChars == Range(UpperCase) \cup Range(LowerCase) \cup Range(DigitChars) \cup {"_"}

\* char::is_whitespace, on the characters the model uses.
WhitespaceChars == {" ", "\t", "\n", "\r"}

Drop(input, n) == SubSeq(input, n + 1, Len(input))

StartsWith(input, text) == Len(input) >= Len(text) /\ SubSeq(input, 1, Len(text)) = text

\* The length of the longest prefix of the input made of the characters.
PrefixLen(input, chars) ==
    CHOOSE n \in 0..Len(input) :
        /\ \A i \in 1..n : input[i] \in chars
        /\ n = Len(input) \/ input[n + 1] \notin chars

\* whitespace of expression.rs: take_while(char::is_whitespace)
whitespace(input) == Drop(input, PrefixLen(input, WhitespaceChars))

\* many1(one_of("0123456789"))
collect_digits(input) ==
    IF PrefixLen(input, Range(DigitChars)) = 0 THEN ParseErr
    ELSE ParseOk(Drop(input, PrefixLen(input, Range(DigitChars))),
                 SubSeq(input, 1, PrefixLen(input, Range(DigitChars))))

\* The number the digits write, for up to nine digits after the leading zeros.
RECURSIVE DigitsValue(_)
DigitsValue(digits) ==
    IF digits = <<>> THEN 0
    ELSE 10 * DigitsValue(SubSeq(digits, 1, Len(digits) - 1))
         + (CHOOSE i \in 1..10 : DigitChars[i] = digits[Len(digits)]) - 1

\* digits.parse::<i32>() succeeds: the number is at most i32::MAX.
ParsesAsI32(digits) ==
    LET significant == Drop(digits, PrefixLen(digits, {"0"}))
    IN  \/ Len(significant) < 10
        \/ /\ Len(significant) = 10
           /\ LET front == DigitsValue(SubSeq(significant, 1, 9))
                  last  == DigitsValue(SubSeq(significant, 10, 10))
              IN  front < 214748364 \/ (front = 214748364 /\ last <= 7)

identifier(input) ==
    IF collect_digits(input).ok THEN ParseErr
    ELSE IF PrefixLen(input, IdentifierChars) = 0 THEN ParseErr
    ELSE ParseOk(Drop(input, PrefixLen(input, IdentifierChars)),
                 SubSeq(input, 1, PrefixLen(input, IdentifierChars)))

numeric_literal(input) ==
    LET signed   == input # <<>> /\ Head(input) \in {"+", "-"}
        negative == signed /\ Head(input) = "-"
        input1   == IF signed THEN Tail(input) ELSE input
        integer  == collect_digits(input1)
        input2   == IF integer.ok THEN integer.rest ELSE input1
        fraction == IF input2 # <<>> /\ Head(input2) = "."
                    THEN collect_digits(Tail(input2)) ELSE ParseErr
        input3   == IF fraction.ok THEN fraction.rest ELSE input2
        esigned  == Len(input3) >= 2 /\ input3[1] = "e" /\ input3[2] \in {"+", "-"}
        edigits  == IF input3 # <<>> /\ Head(input3) = "e"
                    THEN collect_digits(Drop(input3, IF esigned THEN 2 ELSE 1))
                    ELSE ParseErr
        input4   == IF edigits.ok THEN edigits.rest ELSE input3
        problem  == edigits.ok /\ ~ParsesAsI32(edigits.value)
        power    == IF esigned /\ input3[2] = "-" THEN -DigitsValue(edigits.value)
                    ELSE DigitsValue(edigits.value)
        whole    == IF integer.ok THEN F(DigitsValue(integer.value)) ELSE F(0)
        parts    == IF fraction.ok
                    THEN FAdd(whole, FE(DigitsValue(fraction.value), -Len(fraction.value)))
                    ELSE whole
        scaled   == IF edigits.ok THEN FMul(parts, Powi10(power)) ELSE parts
    IN  IF ~integer.ok /\ ~fraction.ok THEN ParseErr
        ELSE IF problem THEN ParseOk(input4, NumericLiteral(FNaN))
        ELSE ParseOk(input4, NumericLiteral(IF negative THEN FNeg(scaled) ELSE scaled))

lookup_name(input) ==
    LET Named(name) ==
            IF name.ok THEN ParseOk(name.rest, LookupName(name.value)) ELSE ParseErr
    IN  Named(identifier(input))

\* alt((first, second)): the first parser that succeeds.
alt(first, second) == IF first.ok THEN first ELSE second

\* The length of the longest prefix of the input without any of the characters.
PrefixLenUntil(input, stops) ==
    CHOOSE n \in 0..Len(input) :
        /\ \A i \in 1..n : input[i] \notin stops
        /\ n = Len(input) \/ input[n + 1] \in stops

\* delimited(char('"'), string_content, char('"'))
string_literal(input) ==
    LET Content(content) ==
            IF Len(content) = PrefixLenUntil(content, {"\"", "\n"}) THEN ParseErr
            ELSE IF content[PrefixLenUntil(content, {"\"", "\n"}) + 1] # "\"" THEN ParseErr
            ELSE ParseOk(Drop(content, PrefixLenUntil(content, {"\"", "\n"}) + 1),
                         StringLiteral(SubSeq(content, 1,
                                              PrefixLenUntil(content, {"\"", "\n"}))))
    IN  IF input = <<>> \/ Head(input) # "\"" THEN ParseErr ELSE Content(Tail(input))

\* A chain of ^ that nests to the left.
PowChainLeft(terms) ==
    IF Len(terms) = 1 THEN terms[1]
    ELSE LET RECURSIVE Nest(_, _)
             Nest(expr, rest) ==
                 IF rest = <<>> THEN expr
                 ELSE Nest(BinaryExpr(expr, "Pow", Head(rest)), Tail(rest))
         IN  Nest(Head(terms), Tail(terms))

\* The loop of expr_priority30 over the collected terms, from the last one.
PowChain(terms) ==
    LET RECURSIVE Nest(_, _)
        Nest(front, expr) ==
            IF front = <<>> THEN expr
            ELSE Nest(SubSeq(front, 1, Len(front) - 1),
                      BinaryExpr(front[Len(front)], "Pow", expr))
    IN  Nest(SubSeq(terms, 1, Len(terms) - 1), terms[Len(terms)])

\* The recursion of the grammar goes through Parser: the parser of a level
\* of the expressions, by its name.
RECURSIVE Parser(_, _)
RECURSIVE MoreArguments(_, _)
RECURSIVE MoreFields(_, _)
RECURSIVE FoldTerms(_, _, _)

\* ws, identifier, opt(ws ':' ws expr_priority10), ws
entity_builder_field(input) ==
    LET name == identifier(whitespace(input))
        Valued(colon) ==
            IF colon # <<>> /\ Head(colon) = ":"
            THEN Parser("expr_priority10", whitespace(Tail(colon)))
            ELSE ParseErr
        Built(value) ==
            IF value.ok THEN ParseOk(whitespace(value.rest), Property(name.value, value.value))
            ELSE ParseOk(whitespace(name.rest), Tag(name.value))
    IN  IF ~name.ok THEN ParseErr ELSE Built(Valued(whitespace(name.rest)))

\* separated_list0 after its first element: a separator and a field, as
\* long as both parse.
MoreFields(input, fields) ==
    LET sep == whitespace(input)
        Next(field) ==
            IF field.ok THEN MoreFields(field.rest, Append(fields, field.value))
            ELSE ParseOk(input, fields)
    IN  IF sep # <<>> /\ Head(sep) = ","
        THEN Next(entity_builder_field(whitespace(Tail(sep))))
        ELSE ParseOk(input, fields)

parse_entity_builder(input) ==
    LET Trailing(rest) ==
            IF whitespace(rest) # <<>> /\ Head(whitespace(rest)) = ","
            THEN whitespace(Tail(whitespace(rest)))
            ELSE rest
        Listed(fields) == ParseOk(Trailing(fields.rest), entity_builder(fields.value))
        First(field) ==
            IF field.ok THEN Listed(MoreFields(field.rest, <<field.value>>))
            ELSE Listed(ParseOk(input, <<>>))
    IN  First(entity_builder_field(input))

expr_priority50(input) ==
    LET Closed(inner, close) ==
            IF inner.ok /\ inner.rest # <<>> /\ Head(inner.rest) = close
            THEN ParseOk(Tail(inner.rest), inner.value)
            ELSE ParseErr
        Opened(open) == input # <<>> /\ Head(input) = open
    IN  alt(numeric_literal(input),
            alt(lookup_name(input),
                alt(string_literal(input),
                    alt(Closed(IF Opened("(") THEN Parser("expr_priority10", Tail(input))
                               ELSE ParseErr, ")"),
                        Closed(IF Opened("{") THEN parse_entity_builder(Tail(input))
                               ELSE ParseErr, "}")))))

\* many0(pair(char(','), expr_priority10))
MoreArguments(input, args) ==
    LET Next(arg) ==
            IF arg.ok THEN MoreArguments(arg.rest, Append(args, arg.value))
            ELSE ParseOk(input, args)
    IN  IF input # <<>> /\ Head(input) = ","
        THEN Next(Parser("expr_priority10", Tail(input)))
        ELSE ParseOk(input, args)

fn_args(input) ==
    LET Trailing(args) ==
            IF args.rest # <<>> /\ Head(args.rest) = ","
            THEN ParseOk(Tail(args.rest), args.value)
            ELSE args
        First(arg) ==
            IF arg.ok THEN Trailing(MoreArguments(arg.rest, <<arg.value>>))
            ELSE ParseOk(input, <<>>)
    IN  First(Parser("expr_priority10", input))

expr_priority40(input) ==
    LET Applied(term, rest) ==
            LET Called(args) ==
                    IF args.rest # <<>> /\ Head(args.rest) = ")"
                    THEN ParseOk(Tail(args.rest), ApplyFunction(term, args.value))
                    ELSE ParseOk(rest, term)
            IN  IF rest # <<>> /\ Head(rest) = "(" THEN Called(fn_args(Tail(rest)))
                ELSE ParseOk(rest, term)
        Term(term) ==
            IF term.ok THEN Applied(term.value, whitespace(term.rest)) ELSE ParseErr
    IN  Term(expr_priority50(whitespace(input)))

\* fold_many0(pair(one_of(ops), the parser of the next level), ...): level 30
\* collects the terms, levels 20 and 10 nest them to the left.
FoldTerms(level, input, acc) ==
    LET ops == IF level = 30 THEN {"^"} ELSE IF level = 20 THEN {"*", "/"} ELSE {"+", "-"}
        BinaryOp(c) ==
            IF c = "*" THEN "Mul" ELSE IF c = "/" THEN "Div"
            ELSE IF c = "+" THEN "Add" ELSE "Sub"
        Next(term) ==
            IF ~term.ok THEN ParseOk(input, acc)
            ELSE FoldTerms(level, term.rest,
                           IF level = 30 THEN Append(acc, term.value)
                           ELSE BinaryExpr(acc, BinaryOp(Head(input)), term.value))
    IN  IF input # <<>> /\ Head(input) \in ops
        THEN Next(Parser(IF level = 30 THEN "expr_priority40"
                         ELSE IF level = 20 THEN "expr_priority30"
                         ELSE "expr_priority20",
                         Tail(input)))
        ELSE ParseOk(input, acc)

expr_priority30(input) ==
    LET Chain(terms) == ParseOk(terms.rest, PowChain(terms.value))
        First(term) ==
            IF term.ok THEN Chain(FoldTerms(30, term.rest, <<term.value>>)) ELSE ParseErr
    IN  First(Parser("expr_priority40", input))

expr_priority20(input) ==
    LET First(term) == IF term.ok THEN FoldTerms(20, term.rest, term.value) ELSE ParseErr
    IN  First(Parser("expr_priority30", input))

expr_priority10(input) ==
    LET First(term) == IF term.ok THEN FoldTerms(10, term.rest, term.value) ELSE ParseErr
    IN  First(Parser("expr_priority20", input))

Parser(name, input) ==
    IF name = "expr_priority10" THEN expr_priority10(input)
    ELSE IF name = "expr_priority20" THEN expr_priority20(input)
    ELSE IF name = "expr_priority30" THEN expr_priority30(input)
    ELSE expr_priority40(input)

parse_expression(input) == Parser("expr_priority10", input)

(***************************************************************************)
(* SpecChain: a chain of operand atoms and binary operators is written     *)
(* out, with or without blanks around the operators, and parsed.           *)
(***************************************************************************)
\* The number of operands of a chain.
MaxTerms == 3

\* An operand as written, and the expression it is.
Atom(text, expression) == [text |-> text, expression |-> expression]

\* a, -3 and (b-12)
Atoms ==
    {Atom(<<"a">>, LookupName(<<"a">>)),
     Atom(<<"-","3">>, NumericLiteral(F(-3))),
     Atom(<<"(","b","-","1","2",")">>,
          BinaryExpr(LookupName(<<"b">>), "Sub", NumericLiteral(F(12))))}

OperatorChars == {"+", "-", "*", "/", "^"}

Blanks == {<<>>, <<" ">>}

\* The text of the chain: the terms with the operators between them.
RECURSIVE ChainText(_, _, _)
ChainText(terms, ops, blank) ==
    IF Len(terms) = 1 THEN terms[1].text
    ELSE terms[1].text \o blank \o <<ops[1]>> \o blank
         \o ChainText(Tail(terms), Tail(ops), blank)

\* The frame of a call of a parser: the parsers do not see the Instance.
Parses(c, parsed) ==
    /\ call' = c
    /\ result' = [status |-> IF parsed.ok THEN "Ok" ELSE "Err", value |-> parsed]
    /\ ncalls' = 1
    /\ UNCHANGED <<instance, before, debug_assertions, todo, ran>>
    /\ UNCHANGED <<pool_vars, composite_vars>>

ParseChain ==
    /\ ncalls = 0
    /\ \E n \in 1..MaxTerms, blank \in Blanks :
           \E terms \in [1..n -> Atoms], ops \in [1..(n - 1) -> OperatorChars] :
               Parses([op |-> "parse_expression", terms |-> terms, ops |-> ops,
                       blank |-> blank],
                      parse_expression(ChainText(terms, ops, blank)))

InitChain == InitWith({<<>>})

NextChain == ParseChain

SpecChain == InitChain /\ [][NextChain]_vars

(***************************************************************************)
(* The statement parser of statement.rs.                                   *)
(***************************************************************************)
\* whitespace of statement.rs: blanks, line ends and // comments.
RECURSIVE SkipWhitespace(_, _)
SkipWhitespace(input, comment) ==
    IF input # <<>> /\ Head(input) \in {" ", "\t", "\r"}
    THEN SkipWhitespace(Tail(input), comment)
    ELSE IF StartsWith(input, <<"/", "/">>) THEN SkipWhitespace(Drop(input, 2), TRUE)
    ELSE IF StartsWith(input, <<"\n">>) THEN SkipWhitespace(Tail(input), FALSE)
    ELSE IF comment /\ Len(input) > 0 THEN SkipWhitespace(Tail(input), comment)
    ELSE input

parse_whitespace(input) == SkipWhitespace(input, FALSE)

\* identifier of statement.rs
parse_identifier(input) ==
    IF input # <<>> /\ Head(input) \in Range(DigitChars) THEN ParseErr
    ELSE IF PrefixLen(input, IdentifierChars) = 0 THEN ParseErr
    ELSE ParseOk(Drop(input, PrefixLen(input, IdentifierChars)),
                 SubSeq(input, 1, PrefixLen(input, IdentifierChars)))

K_make == <<"m","a","k","e">>

K_called == <<"c","a","l","l","e","d">>

K_for == <<"f","o","r">>

\* The labels of parse_make, in the order of its alt.
MakeLabels ==
    <<<<"u","n","i","t","_","c","l","a","s","s">>,
      <<"b","a","s","e","_","u","n","i","t">>,
      <<"d","e","r","i","v","e","d","_","u","n","i","t">>,
      <<"e","n","t","i","t","y","_","c","l","a","s","s">>,
      <<"l","a","b","e","l">>,
      <<"v","a","l","u","e">>>>

L_unit_class == MakeLabels[1]

L_entity_class == MakeLabels[4]

L_label == MakeLabels[5]

\* The Statement variant of a label.
KindOfLabel(label) ==
    IF label = MakeLabels[1] THEN "MakeUnitClass"
    ELSE IF label = MakeLabels[2] THEN "MakeBaseUnit"
    ELSE IF label = MakeLabels[3] THEN "MakeDerivedUnit"
    ELSE IF label = MakeLabels[4] THEN "MakeEntityClass"
    ELSE IF label = MakeLabels[5] THEN "MakeLabel"
    ELSE "MakeValue"

\* separated_list1(char(','), delimited(whitespace, identifier, whitespace))
\* after its first name.
RECURSIVE MoreNames(_, _)
MoreNames(input, names) ==
    LET Next(name) ==
            IF name.ok
            THEN MoreNames(parse_whitespace(name.rest), Append(names, name.value))
            ELSE ParseOk(input, names)
    IN  IF input # <<>> /\ Head(input) = ","
        THEN Next(parse_identifier(parse_whitespace(Tail(input))))
        ELSE ParseOk(input, names)

\* parse_value: not for unit_class, and for entity_class only before a '{'.
ParsesValue(label, input) ==
    IF label = L_unit_class THEN FALSE
    ELSE IF label = L_entity_class THEN input # <<>> /\ Head(input) = "{"
    ELSE TRUE

\* The match on the label and the value: lines 105 to 123 of parse_make.
parse_make_statement(label, names, value) ==
    IF ~value.ok THEN ParseErr
    ELSE ParseOk(parse_whitespace(value.rest),
                 Statement(KindOfLabel(label), names, value.value))

\* The value of the statement, or none: lines 80 to 104 of parse_make.
parse_make_value(label, names, rest) ==
    IF label = L_unit_class
    THEN ParseOk(rest, Statement("MakeUnitClass", names, NoValue))
    ELSE IF ParsesValue(label, rest)
    THEN parse_make_statement(label, names, parse_expression(parse_whitespace(rest)))
    ELSE IF label = L_entity_class
    THEN ParseOk(rest, Statement("MakeEntityClass", names, EmptyBuilder))
    ELSE ParseErr

\* The keyword for of a label: lines 75 to 78 of parse_make.
parse_make_for(label, names, rest) ==
    IF label = L_label /\ ~StartsWith(rest, K_for) THEN ParseErr
    ELSE parse_make_value(label, names,
                          IF label = L_label
                          THEN parse_whitespace(Drop(rest, Len(K_for))) ELSE rest)

\* The names after the first one: lines 72 to 74 of parse_make.
parse_make_names(label, name) ==
    IF ~name.ok THEN ParseErr
    ELSE parse_make_for(label,
                        MoreNames(parse_whitespace(name.rest), <<name.value>>).value,
                        parse_whitespace(
                            MoreNames(parse_whitespace(name.rest), <<name.value>>).rest))

\* The keyword called and the first name: lines 70 to 72 of parse_make.
parse_make_called(label, rest) ==
    IF ~StartsWith(rest, K_called) THEN ParseErr
    ELSE parse_make_names(label,
                          parse_identifier(parse_whitespace(Drop(rest, Len(K_called)))))

\* The first label of the alt that the text starts with.
FirstLabel(text) ==
    CHOOSE i \in 1..Len(MakeLabels) :
        /\ StartsWith(text, MakeLabels[i])
        /\ \A j \in 1..(i - 1) : ~StartsWith(text, MakeLabels[j])

\* The label: lines 62 to 69 of parse_make.
parse_make_label(rest) ==
    IF \A i \in 1..Len(MakeLabels) : ~StartsWith(rest, MakeLabels[i]) THEN ParseErr
    ELSE parse_make_called(MakeLabels[FirstLabel(rest)],
                           parse_whitespace(Drop(rest, Len(MakeLabels[FirstLabel(rest)]))))

parse_make(input) ==
    IF ~StartsWith(input, K_make) THEN ParseErr
    ELSE parse_make_label(parse_whitespace(Drop(input, Len(K_make))))

(***************************************************************************)
(* SpecMake: a make statement is written out and parsed: its label, its    *)
(* names, and what follows the names.                                      *)
(***************************************************************************)
\* What follows the names: blanks or a comment, the keyword for or not, the
\* text of a value or nothing, the expression the text is (if any), and the
\* text after it.
Follows(lead, for, value, expression, next) ==
    [lead |-> lead, for |-> for, value |-> value, expression |-> expression, next |-> next]

Leads == {<<" ">>, <<"\n">>, <<" ","/","/"," ","c","\n">>}

\* Nothing, x, {} and { m }
ValueTexts ==
    {[text |-> <<>>, expression |-> <<>>],
     [text |-> <<"x">>, expression |-> <<LookupName(<<"x">>)>>],
     [text |-> <<"{", "}">>, expression |-> <<EmptyBuilder>>],
     [text |-> <<"{"," ","m"," ","}">>,
      expression |-> <<BuildEntity(<<>>, << <<"m">> >>)>>]}

\* The end of the input, or the next statement on a new line.
NextTexts == {<<>>, <<"\n","s","h","o","w"," ","y">>}

NameTexts ==
    {[text |-> <<" ", "A">>, names |-> <<N_A>>],
     [text |-> <<" ","A",","," ","B">>, names |-> <<N_A, N_B>>]}

\* The text from the keyword for on.
AfterLead(follows) ==
    (IF follows.for THEN K_for \o <<" ">> ELSE <<>>) \o follows.value \o follows.next

MakeText(label, names, follows) ==
    K_make \o <<" ">> \o label \o <<" ">> \o K_called \o names.text
    \o follows.lead \o AfterLead(follows)

ParseMake ==
    /\ ncalls = 0
    /\ \E i \in 1..Len(MakeLabels), names \in NameTexts, lead \in Leads, for \in BOOLEAN,
          value \in ValueTexts, next \in NextTexts :
           Parses([op |-> "parse_make", label |-> MakeLabels[i], names |-> names.names,
                   follows |-> Follows(lead, for, value.text, value.expression, next)],
                  parse_make(MakeText(MakeLabels[i], names,
                                      Follows(lead, for, value.text, value.expression,
                                              next))))

InitMake == InitWith({<<>>})

NextMake == ParseMake

SpecMake == InitMake /\ [][NextMake]_vars

(***************************************************************************)
(* SpecPool: next_id and push on a StoragePool.                            *)
(***************************************************************************)
\* The number of calls made on the pool.
MaxPoolCalls == 5

PoolItems == {"a", "b"}

NextId ==
    /\ ncalls < MaxPoolCalls
    /\ pool_log' = Append(pool_log, [op |-> "next_id", id |-> StoragePool_next_id(pool),
                                     pool |-> pool])
    /\ ncalls' = ncalls + 1
    /\ UNCHANGED <<pool, debug_assertions, instance_vars, composite_vars>>

Push ==
    /\ ncalls < MaxPoolCalls
    /\ \E item \in PoolItems :
           LET Pushed(pushed) ==
                   /\ pool' = pushed.pool
                   /\ pool_log' = Append(pool_log, [op |-> "push", id |-> pushed.id,
                                                    item |-> item, pool |-> pushed.pool])
           IN  Pushed(StoragePool_push(pool, item))
    /\ ncalls' = ncalls + 1
    /\ UNCHANGED <<debug_assertions, instance_vars, composite_vars>>

NextPool == NextId \/ Push

SpecPool == Init /\ [][NextPool]_vars

(***************************************************************************)
(* SpecComposite: two composites, each multiplied and divided by ids.      *)
(***************************************************************************)
\* The number of factors multiplied and divided into the two composites.
MaxFactors == 4

InitComposite ==
    /\ instance = Instance_new
    /\ debug_assertions \in BOOLEAN
    /\ call = NoCall
    /\ before = Instance_new
    /\ result = [status |-> "Ok", value |-> NoValue]
    /\ ncalls = 0
    /\ todo = <<>>
    /\ ran = <<>>
    /\ pool = StoragePool_new
    /\ pool_log = <<>>
    /\ \E a \in CompositeIds :
           lhs = Composite_from(a) /\ lhs_powers = [NoPowers EXCEPT ![a] = 1]
    /\ \E b \in CompositeIds :
           rhs = Composite_from(b) /\ rhs_powers = [NoPowers EXCEPT ![b] = 1]

\* self * Composite::from(id) or self / Composite::from(id); the union
\* inside asserts in debug builds, and a failed assertion ends the process.
Factor(self, op, id) == CompositeBinary(debug_assertions, self, op, Composite_from(id))

CanFactor == result.status # "Panic" /\ ncalls < MaxFactors

MulLhs ==
    /\ CanFactor
    /\ \E id \in CompositeIds :
           /\ lhs' = (IF Factor(lhs, "Mul", id).status = "Ok"
                      THEN Factor(lhs, "Mul", id).value ELSE lhs)
           /\ lhs_powers' = [lhs_powers EXCEPT ![id] = @ + 1]
           /\ result' = [result EXCEPT !.status = Factor(lhs, "Mul", id).status]
    /\ ncalls' = ncalls + 1
    /\ UNCHANGED <<rhs, rhs_powers, debug_assertions, pool_vars>>
    /\ UNCHANGED <<instance, call, before, todo, ran>>

DivLhs ==
    /\ CanFactor
    /\ \E id \in CompositeIds :
           /\ lhs' = (IF Factor(lhs, "Div", id).status = "Ok"
                      THEN Factor(lhs, "Div", id).value ELSE lhs)
           /\ lhs_powers' = [lhs_powers EXCEPT ![id] = @ - 1]
           /\ result' = [result EXCEPT !.status = Factor(lhs, "Div", id).status]
    /\ ncalls' = ncalls + 1
    /\ UNCHANGED <<rhs, rhs_powers, debug_assertions, pool_vars>>
    /\ UNCHANGED <<instance, call, before, todo, ran>>

MulRhs ==
    /\ CanFactor
    /\ \E id \in CompositeIds :
           /\ rhs' = (IF Factor(rhs, "Mul", id).status = "Ok"
                      THEN Factor(rhs, "Mul", id).value ELSE rhs)
           /\ rhs_powers' = [rhs_powers EXCEPT ![id] = @ + 1]
           /\ result' = [result EXCEPT !.status = Factor(rhs, "Mul", id).status]
    /\ ncalls' = ncalls + 1
    /\ UNCHANGED <<lhs, lhs_powers, debug_assertions, pool_vars>>
    /\ UNCHANGED <<instance, call, before, todo, ran>>

DivRhs ==
    /\ CanFactor
    /\ \E id \in CompositeIds :
           /\ rhs' = (IF Factor(rhs, "Div", id).status = "Ok"
                      THEN Factor(rhs, "Div", id).value ELSE rhs)
           /\ rhs_powers' = [rhs_powers EXCEPT ![id] = @ - 1]
           /\ result' = [result EXCEPT !.status = Factor(rhs, "Div", id).status]
    /\ ncalls' = ncalls + 1
    /\ UNCHANGED <<lhs, lhs_powers, debug_assertions, pool_vars>>
    /\ UNCHANGED <<instance, call, before, todo, ran>>

NextComposite == MulLhs \/ DivLhs \/ MulRhs \/ DivRhs

SpecComposite == InitComposite /\ [][NextComposite]_vars

(***************************************************************************)
(* SpecAlgebra: composites built by from, identity, mul, div and pow.  The *)
(* operations act on lhs, with rhs as their operand; call and before keep  *)
(* the last operation and the lhs it found.                                *)
(***************************************************************************)
\* The number of operations a run performs.
MaxOps == 4

\* 0, 2, 1/2, -1, 1e-11, +inf and NaN.
PowExponents == {F(0), F(2), FDiv(F(1), F(2)), F(-1), FE(1, -11), FInf, FNaN}

\* Composite::identity() and the Composite::from(id).
AlgebraAtoms == {Composite_identity} \cup {Composite_from(id) : id \in CompositeIds}

InitAlgebra ==
    /\ instance = Instance_new
    /\ debug_assertions \in BOOLEAN
    /\ call = NoCall
    /\ before = Composite_identity
    /\ result = [status |-> "Ok", value |-> NoValue]
    /\ ncalls = 0
    /\ todo = <<>>
    /\ ran = <<>>
    /\ pool = StoragePool_new
    /\ pool_log = <<>>
    /\ lhs \in AlgebraAtoms /\ lhs_powers = NoPowers
    /\ rhs \in AlgebraAtoms /\ rhs_powers = NoPowers

CanOperate == result.status # "Panic" /\ ncalls < MaxOps

\* The decimal exponents of two powers that are summed differ by no more
\* than this, which keeps the exact sum within the integers of the model.
MaxExponentGap == 6

\* The powers the two bags hold of a common id can be summed in the model.
Summable(self, other) ==
    \A i \in 1..Len(self), j \in 1..Len(other) :
        (self[i][2] = other[j][2] /\ FIsFinite(self[i][1]) /\ FIsFinite(other[j][1]))
            => AbsInt(self[i][1].e - other[j][1].e) <= MaxExponentGap

\* The frame of an operation on the two composites.
Operates(c) ==
    /\ CanOperate
    /\ call' = c
    /\ before' = lhs
    /\ ncalls' = ncalls + 1
    /\ UNCHANGED <<instance, debug_assertions, todo, ran, pool_vars, lhs_powers, rhs_powers>>

\* rhs = Composite::from(id)
AlgebraFrom ==
    \E id \in CompositeIds :
        /\ Operates([op |-> "from", id |-> id])
        /\ rhs' = Composite_from(id)
        /\ UNCHANGED <<lhs, result>>

\* rhs = Composite::identity()
AlgebraIdentity ==
    /\ Operates([op |-> "identity"])
    /\ rhs' = Composite_identity
    /\ UNCHANGED <<lhs, result>>

\* The two composites change places.
AlgebraSwap ==
    /\ Operates([op |-> "swap"])
    /\ lhs' = rhs
    /\ rhs' = lhs
    /\ UNCHANGED result

\* lhs = lhs * rhs or lhs = lhs / rhs; a failed debug assertion ends the process.
AlgebraBinary ==
    \E op \in {"Mul", "Div"} :
        LET Leaves(outcome) ==
                /\ lhs' = (IF outcome.status = "Ok" THEN outcome.value ELSE lhs)
                /\ result' = [result EXCEPT !.status = outcome.status]
        IN  /\ Operates([op |-> op])
            /\ Summable(lhs, rhs)
            /\ Leaves(CompositeBinary(debug_assertions, lhs, op, rhs))
            /\ UNCHANGED rhs

\* lhs.pow(exp)
AlgebraPow ==
    \E exp \in PowExponents :
        /\ Operates([op |-> "pow", exp |-> exp])
        /\ lhs' = Composite_pow(lhs, exp)
        /\ UNCHANGED <<rhs, result>>

NextAlgebra ==
    AlgebraFrom \/ AlgebraIdentity \/ AlgebraSwap \/ AlgebraBinary \/ AlgebraPow

SpecAlgebra == InitAlgebra /\ [][NextAlgebra]_vars

(***************************************************************************)
(* SpecAssign: the operations of SpecAlgebra, and lhs *= rhs and           *)
(* lhs /= rhs.                                                             *)
(***************************************************************************)
\* lhs *= rhs or lhs /= rhs; a failed debug assertion ends the process.
AlgebraAssign ==
    \E op \in {"MulAssign", "DivAssign"} :
        LET Leaves(outcome) ==
                /\ lhs' = (IF outcome.status = "Ok" THEN outcome.value ELSE lhs)
                /\ result' = [result EXCEPT !.status = outcome.status]
        IN  /\ Operates([op |-> op])
            /\ Summable(lhs, rhs)
            /\ Leaves(IF op = "MulAssign"
                      THEN Composite_mul_assign(debug_assertions, lhs, rhs)
                      ELSE Composite_div_assign(debug_assertions, lhs, rhs))
            /\ UNCHANGED rhs

NextAssign == NextAlgebra \/ AlgebraAssign

SpecAssign == InitAlgebra /\ [][NextAssign]_vars

(***************************************************************************)
(* SpecScalar: one of add, sub, mul and div applied to two scalars.  The   *)
(* scalars are lhs and rhs; call and result keep the operation and what it *)
(* gave.                                                                   *)
(***************************************************************************)
\* 500, 300, -300, 0.5 and 0.
ScalarValues == {F(500), F(300), F(-300), FE(5, -1), F(0)}

Precisions == {Exact, SigFigs(1), SigFigs(3), SigFigs(5), PercentError(FE(1, -3))}

\* Dimension and display unit: a number, a length in the units 0 and 1, a
\* time in the unit 2.
Dimensions ==
    {[unit |-> Composite_identity, display_unit |-> Composite_identity],
     [unit |-> Composite_from(0), display_unit |-> Composite_from(0)],
     [unit |-> Composite_from(0), display_unit |-> Composite_from(1)],
     [unit |-> Composite_from(1), display_unit |-> Composite_from(2)]}

ScalarOperands ==
    {Scalar_new(value, precision, dimension.unit, dimension.display_unit) :
        value \in ScalarValues, precision \in Precisions, dimension \in Dimensions}

InitScalar ==
    /\ instance = Instance_new
    /\ debug_assertions \in BOOLEAN
    /\ call = NoCall
    /\ before = Instance_new
    /\ result = [status |-> "Ok", value |-> NoValue]
    /\ ncalls = 0
    /\ todo = <<>>
    /\ ran = <<>>
    /\ pool = StoragePool_new
    /\ pool_log = <<>>
    /\ lhs \in ScalarOperands /\ lhs_powers = NoPowers
    /\ rhs \in ScalarOperands /\ rhs_powers = NoPowers

\* The one operation of a run, and what it gave.
Gives(op, outcome) ==
    /\ call = NoCall
    /\ call' = [op |-> op]
    /\ result' = outcome
    /\ ncalls' = ncalls + 1
    /\ UNCHANGED <<instance, debug_assertions, before, todo, ran>>
    /\ UNCHANGED <<pool_vars, composite_vars>>

\* lhs.add(&rhs)
AddScalars == Gives("add", ScalarAddSub(debug_assertions, lhs, "Add", rhs))

\* lhs.sub(&rhs)
SubScalars == Gives("sub", ScalarAddSub(debug_assertions, lhs, "Sub", rhs))

\* lhs * rhs
MulScalars == Gives("mul", ScalarBinary(debug_assertions, lhs, "Mul", rhs))

\* lhs / rhs
DivScalars == Gives("div", ScalarBinary(debug_assertions, lhs, "Div", rhs))

NextScalar == AddScalars \/ SubScalars \/ MulScalars \/ DivScalars

SpecScalar == InitScalar /\ [][NextScalar]_vars

(***************************************************************************)
(* Properties of the declarations (SpecApi).                               *)
(***************************************************************************)
NameBound(inst, name) == ManyToOneMap_has(inst.meta_items, name)

BoundNames(inst) == DOMAIN inst.meta_items.keys

\* The last call declared a unit class, an entity class or a plain unit.
PlainDeclaration ==
    \/ call.op \in {"add_unit_class", "add_entity_class"}
    \/ call.op = "add_unit" /\ call.prefix_type = "None"

\* C1: a declaration of a unit class, of a unit with prefix type None or of
\* an entity class, one of whose aliases is already bound in the meta
\* namespace, fails and leaves the meta namespace and the three arenas as
\* they were; the aliases that were unresolvable stay unresolvable.
C1_CollidingDeclarationIsAtomic ==
    (PlainDeclaration /\ \E i \in 1..Len(call.names) : NameBound(before, call.names[i]))
        => /\ result.status = "Err"
           /\ instance.meta_items = before.meta_items
           /\ instance.unit_classes = before.unit_classes
           /\ instance.units = before.units
           /\ instance.entity_classes = before.entity_classes
           /\ \A i \in 1..Len(call.names) :
                  ~NameBound(before, call.names[i]) => ~NameBound(instance, call.names[i])

\* With Meter and Meters declared, declaring [Foot, Meters] failed and left Foot unbound.
C1_Witness ==
    /\ call.op = "add_unit" /\ call.prefix_type = "None"
    /\ call.names = <<N_Foot, N_Meters>>
    /\ NameBound(before, N_Meter) /\ NameBound(before, N_Meters)
    /\ ~NameBound(before, N_Foot)
    /\ result.status = "Err"
    /\ ~NameBound(instance, N_Foot)

\* C2: when add_unit with prefix type Metric or PartialMetric returns an
\* error, the meta namespace and the units arena are as before the call.
C2_FailedPrefixedUnitRegistersNothing ==
    (/\ call.op = "add_unit"
     /\ call.prefix_type \in {"Metric", "PartialMetric"}
     /\ result.status = "Err")
        => /\ instance.meta_items = before.meta_items
           /\ instance.units = before.units

\* The alias add_unit generates for name N and the k-th metric prefix.
PrefixedAlias(k, N) == METRIC_PREFIXES[k][1] \o <<ToLowercase(N[1])>> \o Tail(N)

\* The indexes into METRIC_PREFIXES of the prefixes a prefix type generates.
GeneratedPrefixes(prefix_type) ==
    IF prefix_type = "Metric" THEN 1..20
    ELSE IF prefix_type = "PartialMetric" THEN 11..20
    ELSE {}

\* The alias is bound to the single unit id, of power 1, of a unit with this
\* base_ratio and this symbol.
BoundToUnit(inst, alias, base_ratio, symbol) ==
    /\ NameBound(inst, alias)
    /\ LET data == ManyToOneMap_get(inst.meta_items, alias)
       IN  /\ data.kind = "Unit"
           /\ Len(data.v) = 1
           /\ data.v[1][1] = F(1)
           /\ StoragePool_has(inst.units, data.v[1][2])
           /\ StoragePool_index(inst.units, data.v[1][2]).base_ratio = base_ratio
           /\ StoragePool_index(inst.units, data.v[1][2]).symbol = symbol

UnitIdOf(inst, alias) == ManyToOneMap_get(inst.meta_items, alias).v[1][2]

\* C3: after a successful add_unit of a unit with the single alias N, the
\* aliases that became resolvable besides N are exactly the prefixed ones of
\* the prefix type (20 for Metric, the 10 from Deci to Yocto for
\* PartialMetric, none for None), each bound to a unit of its own whose
\* base_ratio is the declared one times the prefix factor and whose symbol is
\* the prefix abbreviation followed by the declared symbol.
C3_MetricExpansion ==
    (call.op = "add_unit" /\ Len(call.names) = 1 /\ result.status = "Ok")
        => LET N         == call.names[1]
               generated == GeneratedPrefixes(call.prefix_type)
               fresh     == (BoundNames(instance) \ BoundNames(before)) \ {N}
           IN  /\ fresh = {PrefixedAlias(k, N) : k \in generated}
               /\ Cardinality(fresh) = Cardinality(generated)
               /\ Cardinality(generated) =
                      (IF call.prefix_type = "Metric" THEN 20
                       ELSE IF call.prefix_type = "PartialMetric" THEN 10 ELSE 0)
               /\ \A k \in generated :
                      BoundToUnit(instance, PrefixedAlias(k, N),
                                  FMul(call.unit.base_ratio, METRIC_PREFIXES[k][3]),
                                  METRIC_PREFIXES[k][2] \o call.unit.symbol)
               /\ \A k, l \in generated :
                      k # l => UnitIdOf(instance, PrefixedAlias(k, N))
                                   # UnitIdOf(instance, PrefixedAlias(l, N))
               /\ call.prefix_type = "PartialMetric" =>
                      \A k \in 1..10 : PrefixedAlias(k, N) \notin fresh

\* Meter, of base_ratio 3, was declared with the metric prefixes: Kilometer
\* is a unit of base_ratio 3000 and symbol km, and 20 aliases came with Meter.
C3_Witness ==
    /\ call.op = "add_unit" /\ call.names = <<N_Meter>> /\ call.prefix_type = "Metric"
    /\ result.status = "Ok"
    /\ call.unit.base_ratio = F(3)
    /\ BoundToUnit(instance, N_Kilometer, F(3000), <<"k", "m">>)
    /\ Cardinality(BoundNames(instance) \ BoundNames(before)) = 21

(***************************************************************************)
(* Properties of the statement executor and the evaluator (SpecExec).      *)
(***************************************************************************)
\* The statements whose execution evaluates their value expression.
Evaluates(statement) ==
    statement.kind \in {"MakeBaseUnit", "MakeDerivedUnit", "MakeLabel", "MakeValue", "Show"}

\* What the value of the statement evaluated to, on the instance before the call.
ValueBefore ==
    resolve_expression(before, debug_assertions, call.statement.value,
                       AmbiguityResolutionContext_default)

\* What the structured extraction of a unit statement's value gave.
ExtractionBefore ==
    from_data(ValueBefore.value, before,
              IF call.statement.kind = "MakeBaseUnit" THEN BaseUnitProperties_fields
              ELSE DerivedUnitProperties_fields,
              UnitProperties_classes)

\* The value of the make statement evaluated, and the extraction refused it.
ExtractionFailed ==
    /\ ValueBefore.status = "Ok"
    /\ \/ /\ call.statement.kind \in {"MakeBaseUnit", "MakeDerivedUnit"}
          /\ \/ ~ExtractionBefore.ok
             \/ ~IsSome(PrefixTypeOf(ExtractionBefore.has[1], ExtractionBefore.has[2]))
       \/ /\ call.statement.kind = "MakeValue"
          /\ ValueBefore.value.kind # "Entity"

\* C5: when execute_statement returns an error for a make statement because
\* its value does not evaluate or because the evaluated data fails the
\* structured extraction, the arenas and the namespaces are as before the call.
C5_FailureBeforeRegistration ==
    (/\ call.op = "execute_statement"
     /\ call.statement.kind \in {"MakeBaseUnit", "MakeDerivedUnit", "MakeLabel", "MakeValue"}
     /\ result.status = "Err"
     /\ (ValueBefore.status = "Err" \/ ExtractionFailed))
        => instance = before

\* A unit statement whose value evaluated to an entity with one property
\* too few was refused, on an instance that has declarations to lose.
C5_Witness ==
    /\ call.op = "execute_statement"
    /\ call.statement.kind = "MakeBaseUnit"
    /\ result.status = "Err"
    /\ ValueBefore.status = "Ok" /\ ValueBefore.value.kind = "Entity"
    /\ DOMAIN ValueBefore.value.v.properties = {S_class}
    /\ ~ExtractionBefore.ok
    /\ NameBound(before, N_Meter)
    /\ instance = before

\* The pool `grown` is an extension of the pool `old`.
PoolGrew(old, grown) == Len(old) <= Len(grown) /\ SubSeq(grown, 1, Len(old)) = old

\* Every name of the map `old` is bound in map to the same item, and the
\* items of `old` are where they were.
BindingsKept(old, map) ==
    /\ PoolGrew(old.items, map.items)
    /\ \A k \in DOMAIN old.keys : k \in DOMAIN map.keys /\ map.keys[k] = old.keys[k]

\* C6: across any execute_statement call, successful or failing, the arenas
\* and the namespaces only grow: every name bound before the call is bound
\* after it, in the same namespace, to the same item.
C6_BindingsPersist ==
    call.op = "execute_statement" =>
        /\ PoolGrew(before.unit_classes, instance.unit_classes)
        /\ PoolGrew(before.units, instance.units)
        /\ PoolGrew(before.entity_classes, instance.entity_classes)
        /\ BindingsKept(before.meta_items, instance.meta_items)
        /\ BindingsKept(before.values, instance.values)
        /\ BindingsKept(before.labels, instance.labels)

\* Velocity was a label; a statement that declares the label Velocity again
\* failed, and Velocity is the label it was.
C6_Witness ==
    /\ call.op = "execute_statement"
    /\ call.statement.kind = "MakeLabel" /\ call.statement.names = <<N_Velocity>>
    /\ result.status = "Err"
    /\ ManyToOneMap_has(before.labels, N_Velocity)
    /\ ManyToOneMap_has(instance.labels, N_Velocity)
    /\ ManyToOneMap_get(instance.labels, N_Velocity)
           = ManyToOneMap_get(before.labels, N_Velocity)
    /\ ValueBefore.status = "Ok"

RECURSIVE ContainsApplyFunction(_)
ContainsApplyFunction(expression) ==
    IF expression.kind = "ApplyFunction" THEN TRUE
    ELSE IF expression.kind = "UnaryExpr" THEN ContainsApplyFunction(expression.rhs)
    ELSE IF expression.kind = "BinaryExpr"
    THEN ContainsApplyFunction(expression.lhs) \/ ContainsApplyFunction(expression.rhs)
    ELSE IF expression.kind = "BuildEntity"
    THEN \E i \in 1..Len(expression.properties) :
            ContainsApplyFunction(expression.properties[i][2])
    ELSE FALSE

\* C7: evaluating an expression that contains a function application, with
\* resolve_expression or by executing a statement that evaluates it, returns
\* an error: it does not panic.
C7_ApplyFunctionReturnsError ==
    /\ (call.op = "resolve_expression" /\ ContainsApplyFunction(call.expression))
           => result.status = "Err"
    /\ (/\ call.op = "execute_statement"
        /\ Evaluates(call.statement)
        /\ ContainsApplyFunction(call.statement.value))
           => result.status = "Err"

(***************************************************************************)
(* Properties of the end-to-end program (SpecProgram).                     *)
(***************************************************************************)
\* The statements the driver has executed, in order.
RanStatements == [i \in 1..Len(ran) |-> ran[i].statement]

\* What the claim says of the instance the scenario leaves: every statement
\* returned Ok, the 20 prefixed variants of Meter and the 10 sub-unity
\* variants of Second are registered units, and the label statement, the
\* last one, left the units and unit-classes arenas as it found them.
ScenarioSucceeded ==
    /\ \A i \in 1..Len(ran) : ran[i].status = "Ok"
    /\ \A k \in 1..20 :
           BoundToUnit(instance, PrefixedAlias(k, N_Meter),
                       METRIC_PREFIXES[k][3], METRIC_PREFIXES[k][2] \o Sym_m)
    /\ \A k \in 11..20 :
           BoundToUnit(instance, PrefixedAlias(k, N_Second),
                       METRIC_PREFIXES[k][3], METRIC_PREFIXES[k][2] \o Sym_s)
    /\ call.statement = St_Velocity
    /\ ManyToOneMap_has(instance.labels, N_Velocity)
    /\ instance.units = before.units
    /\ instance.unit_classes = before.unit_classes

HasMetaHit == call.name \in DOMAIN instance.meta_items.keys

HasValueHit == call.name \in DOMAIN instance.values.keys

HasLabelHit == call.name \in DOMAIN instance.labels.keys

MetaHit == instance.meta_items.items[instance.meta_items.keys[call.name] + 1]

ValueHit == ValueEntity(instance.values.items[instance.values.keys[call.name] + 1])

LabelHit == instance.labels.items[instance.labels.keys[call.name] + 1]

\* C8: under PreferMetaItems the resolution returns the meta hit if present,
\* else the value hit, else the label hit; under PreferValues the value hit
\* if present, else the meta hit, else the label hit; it returns nothing
\* exactly when the three hits are absent.
C8_ResolutionOrder ==
    call.op = "resolve" =>
        /\ call.context = "PreferMetaItems" =>
               result.value = (IF HasMetaHit THEN <<MetaHit>>
                               ELSE IF HasValueHit THEN <<ValueHit>>
                               ELSE IF HasLabelHit THEN <<LabelHit>>
                               ELSE <<>>)
        /\ call.context = "PreferValues" =>
               result.value = (IF HasValueHit THEN <<ValueHit>>
                               ELSE IF HasMetaHit THEN <<MetaHit>>
                               ELSE IF HasLabelHit THEN <<LabelHit>>
                               ELSE <<>>)
        /\ (result.value = <<>>) <=> (~HasMetaHit /\ ~HasValueHit /\ ~HasLabelHit)
        /\ (HasMetaHit \/ HasValueHit) =>
               \/ HasMetaHit /\ result.value = <<MetaHit>>
               \/ HasValueHit /\ result.value = <<ValueHit>>

\* A, bound in the three namespaces, resolved under PreferMetaItems to its
\* meta hit, which is neither its value hit nor its label hit.
C8_Witness ==
    /\ call.op = "resolve" /\ call.name = N_A /\ call.context = "PreferMetaItems"
    /\ HasMetaHit /\ HasValueHit /\ HasLabelHit
    /\ result.value = <<MetaHit>>
    /\ MetaHit.kind = "UnitClass" /\ ValueHit.kind = "Entity" /\ LabelHit.kind = "String"

(***************************************************************************)
(* Properties of the storage pool (SpecPool).                              *)
(***************************************************************************)
\* The pool the i-th call found.
PoolBefore(i) == IF i = 1 THEN StoragePool_new ELSE pool_log[i - 1].pool

\* The pushes among the calls, in order.
Pushes == LET IsPush(c) == c.op = "push" IN SelectSeq(pool_log, IsPush)

\* C9: a push returns the id next_id returned immediately before it, the
\* pushes return 0, 1, 2, ... in order and every id keeps designating the
\* item pushed with it, the pool never gets shorter, and next_id leaves the
\* pool as it is.
C9_PushAssignsNextId ==
    /\ \A i \in 2..Len(pool_log) :
           (pool_log[i].op = "push" /\ pool_log[i - 1].op = "next_id")
               => pool_log[i].id = pool_log[i - 1].id
    /\ \A k \in 1..Len(Pushes) :
           /\ Pushes[k].id = k - 1
           /\ Pushes[k].id \in 0..(Len(pool) - 1)
           /\ pool[Pushes[k].id + 1] = Pushes[k].item
    /\ \A i \in 1..Len(pool_log) :
           /\ Len(PoolBefore(i)) <= Len(pool_log[i].pool)
           /\ pool_log[i].op = "next_id" => pool_log[i].pool = PoolBefore(i)

\* Two pushes, then next_id, then a push that returned what next_id had.
C9_Witness ==
    /\ Len(pool_log) = 4
    /\ pool_log[1].op = "push" /\ pool_log[2].op = "push"
    /\ pool_log[3].op = "next_id" /\ pool_log[3].id = 2
    /\ pool_log[4].op = "push" /\ pool_log[4].id = 2
    /\ Len(pool) = 3

(***************************************************************************)
(* Properties of the composites (SpecComposite).                           *)
(***************************************************************************)
\* C10: composites of two distinct ids are unequal, (c * b) / b equals c,
\* c / c is the identity, and two composites are equal exactly when their
\* quotient has no factor, which is exactly when every id has the same
\* power in both, in whatever order the factors came.
C10_DimensionalEquality ==
    /\ \A a, b \in CompositeIds :
           a # b => ~Composite_eq(Composite_from(a), Composite_from(b))
    /\ \A b \in CompositeIds :
           Composite_eq(Composite_div(Composite_mul(lhs, Composite_from(b)),
                                      Composite_from(b)), lhs)
    /\ Composite_is_identity(Composite_div(lhs, lhs))
    /\ Composite_eq(lhs, rhs) <=> Len(Composite_div(lhs, rhs)) = 0
    /\ Composite_eq(lhs, rhs) <=> lhs_powers = rhs_powers

\* Two equal composites of two factors each that were not built in the
\* same order.
C10_Witness ==
    /\ ncalls = 2
    /\ lhs_powers = rhs_powers
    /\ \E a, b \in CompositeIds :
           /\ a < b
           /\ lhs_powers = [NoPowers EXCEPT ![a] = 1, ![b] = 1]
           /\ lhs = Composite_mul(Composite_from(a), Composite_from(b))
           /\ rhs = Composite_mul(Composite_from(b), Composite_from(a))
    /\ Composite_eq(lhs, rhs)
    /\ result.status = "Ok"

(***************************************************************************)
(* Properties of the composite algebra (SpecAlgebra).                      *)
(***************************************************************************)
\* The ids of the entries increase strictly.
StrictlySorted(items) ==
    \A i \in 1..(Len(items) - 1) : items[i][2] < items[i + 1][2]

IdsOf(items) == [i \in 1..Len(items) |-> items[i][2]]

\* No entry has a power of magnitude below the cancellation threshold.
NoCancelledEntry(items) ==
    \A i \in 1..Len(items) : ~FLt(FAbs(items[i][1]), CancelEpsilon)

\* C11: for bags X and Y sorted by id without duplicate ids, X.union(Y)
\* equals Y.union(X), is sorted by id without duplicate ids, and holds for
\* every id the power X.get(id) + Y.get(id), an id whose summed power is
\* within the cancellation threshold being absent.
C11_UnionSumsPowers ==
    (StrictlySorted(lhs) /\ StrictlySorted(rhs) /\ Summable(lhs, rhs)) =>
        LET Sums(union) ==
                /\ union = QuantityBag_union(rhs, lhs)
                /\ StrictlySorted(union)
                /\ \A id \in CompositeIds :
                       LET Holds(sum) ==
                               IF KeepsQuantity(sum)
                               THEN QuantityBag_get(union, id) = sum
                               ELSE QuantityBag_item_index(union, id) = 0
                       IN  Holds(FAdd(QuantityBag_get(lhs, id), QuantityBag_get(rhs, id)))
        IN  Sums(QuantityBag_union(lhs, rhs))

\* C12: after any sequence of from, identity, mul, div and pow, the factor
\* list of every composite is strictly increasing by id and holds no entry
\* of a power below the threshold in magnitude, and is_identity holds
\* exactly when the list is empty.
C12_FactorListInvariant ==
    /\ StrictlySorted(lhs) /\ StrictlySorted(rhs)
    /\ NoCancelledEntry(lhs) /\ NoCancelledEntry(rhs)
    /\ Composite_is_identity(lhs) <=> lhs = <<>>
    /\ Composite_is_identity(rhs) <=> rhs = <<>>

\* u raised to n and then to 1/n equals u, factor by factor.
RoundTrips(u, n) ==
    LET Back(v) == Composite_eq(v, u) /\ IdsOf(v) = IdsOf(u)
    IN  Back(Composite_pow(Composite_pow(u, n), FDiv(F(1), n)))

\* n and 1/n are finite and not zero.
Invertible(n) ==
    /\ FIsFinite(n) /\ n # F(0)
    /\ FIsFinite(FDiv(F(1), n)) /\ FDiv(F(1), n) # F(0)

Operated == call # NoCall

Additive == Operated /\ call.op \in {"add", "sub"}

Multiplicative == Operated /\ call.op \in {"mul", "div"}

SameDimension == Composite_eq(lhs.unit, rhs.unit)

\* The scalar the operation returned.
Returned == result.value.v

\* C13: add and sub succeed exactly when the operands have equal
\* dimensions, whatever their display units, and return an error
\* otherwise; mul and div succeed on every pair of operands, and the
\* dimension and the display unit of the result are the product, or the
\* quotient, of those of the operands.
C13_DimensionRule ==
    /\ Additive =>
           /\ result.status = "Ok" <=> SameDimension
           /\ result.status = "Err" <=> ~SameDimension
    /\ (Operated /\ call.op = "mul") =>
           /\ result.status = "Ok"
           /\ Returned.unit = Composite_mul(lhs.unit, rhs.unit)
           /\ Returned.display_unit = Composite_mul(lhs.display_unit, rhs.display_unit)
    /\ (Operated /\ call.op = "div") =>
           /\ result.status = "Ok"
           /\ Returned.unit = Composite_div(lhs.unit, rhs.unit)
           /\ Returned.display_unit = Composite_div(lhs.display_unit, rhs.display_unit)

BothSigFigs == lhs.precision.kind = "SigFigs" /\ rhs.precision.kind = "SigFigs"

\* C14: mul and div of SigFigs(m) with SigFigs(n) give SigFigs(min(m, n));
\* add, sub, mul and div of an Exact operand with any other give the
\* precision of the other as it is, and of two Exact operands Exact; the
\* operation succeeds in each of these cases (add and sub on operands of
\* equal dimension).
C14_PrecisionRule ==
    /\ (Multiplicative /\ BothSigFigs) =>
           /\ result.status = "Ok"
           /\ Returned.precision = SigFigs(MinInt(lhs.precision.x, rhs.precision.x))
    /\ (Operated /\ (Multiplicative \/ SameDimension) /\ lhs.precision = Exact) =>
           /\ result.status = "Ok"
           /\ Returned.precision = rhs.precision
    /\ (Operated /\ (Multiplicative \/ SameDimension) /\ rhs.precision = Exact) =>
           /\ result.status = "Ok"
           /\ Returned.precision = lhs.precision

\* SigFigs(3) * SigFigs(5) gave SigFigs(3).
C14_Witness ==
    /\ Operated /\ call.op = "mul"
    /\ lhs.value = F(500) /\ lhs.precision = SigFigs(3)
    /\ rhs.value = F(300) /\ rhs.precision = SigFigs(5)
    /\ result.status = "Ok"
    /\ Returned.precision = SigFigs(3)
    /\ Returned.value = F(150000)

\* floor(log10(|v|)) of a nonzero v.
OrderOf(v) == FOrder(v)

\* The sum the operation computes.
NewValue == FAdd(lhs.value, IF call.op = "sub" THEN FNeg(rhs.value) ELSE rhs.value)

\* max(0, order(new_value) - max(order(lhs) - sf_lhs, order(rhs) - sf_rhs)),
\* the order of a zero sum being below every other.
ExpectedSigFigs ==
    IF NewValue = F(0) THEN 0
    ELSE MaxInt(0, OrderOf(NewValue) - MaxInt(OrderOf(lhs.value) - lhs.precision.x,
                                              OrderOf(rhs.value) - rhs.precision.x))

\* C16: add and sub of two SigFigs operands of equal dimension and of
\* values other than zero give SigFigs(max(0, order(new_value) -
\* max(order(lhs) - sf_lhs, order(rhs) - sf_rhs))), order(v) being
\* floor(log10(|v|)).
C16_AddSigFigs ==
    (Additive /\ BothSigFigs /\ SameDimension /\ lhs.value # F(0) /\ rhs.value # F(0)) =>
        /\ result.status = "Ok"
        /\ Returned.precision = SigFigs(ExpectedSigFigs)

(***************************************************************************)
(* Properties of the binary expressions (SpecBinary).                      *)
(***************************************************************************)
\* What the operands of the evaluated expression evaluate to.
LhsData == resolve_expression(instance, debug_assertions, call.lhs, call.context)

RhsData == resolve_expression(instance, debug_assertions, call.rhs, call.context)

\* The pairings of variants and operator that the claim lists as succeeding.
ListedAsSucceeding(l, op, r) ==
    \/ l.kind = r.kind /\ l.kind \in {"Unit", "UnitClass"} /\ op \in {"Mul", "Div"}
    \/ {l.kind, r.kind} = {"Scalar", "Unit"} /\ op \in {"Mul", "Div"}
    \/ /\ l.kind = "Scalar" /\ r.kind = "Scalar"
       /\ \/ op \in {"Mul", "Div", "Pow"}
          \/ op \in {"Add", "Sub"} /\ Composite_eq(l.v.unit, r.v.unit)

\* C17: a binary expression whose operands evaluate succeeds in the listed
\* pairings of variants and operator and returns an error in every other.
C17_BinaryDispatch ==
    (call.op = "resolve_binary" /\ LhsData.status = "Ok" /\ RhsData.status = "Ok") =>
        IF ListedAsSucceeding(LhsData.value, call.binary_op, RhsData.value)
        THEN result.status = "Ok"
        ELSE result.status = "Err"

\* The evaluation produced a Scalar.
ProducedScalar ==
    /\ call.op = "resolve_binary"
    /\ result.status = "Ok"
    /\ result.value.kind = "Scalar"

\* C23: every Scalar that resolve_expression produces for an expression built
\* from numeric literals, unit names and + - * / ^ has the dimension of its
\* display unit, display_unit.unit_class(instance), equal to its unit field.
C23_DisplayUnitDimension ==
    ProducedScalar
        => Composite_eq(CompositeUnit_unit_class(result.value.v.display_unit, instance),
                        result.value.v.unit)

(***************************************************************************)
(* Properties of the unit statements (SpecExec).                           *)
(***************************************************************************)
\* The statement declares a unit and its entity names both prefix tags.
CarriesBothTags(statement) ==
    /\ statement.kind \in {"MakeBaseUnit", "MakeDerivedUnit"}
    /\ statement.value.kind = "BuildEntity"
    /\ {S_metric, S_partial_metric} \subseteq Range(statement.value.class_names)

\* C18: a MakeBaseUnit or MakeDerivedUnit statement whose entity carries both
\* the metric and the partial_metric class tag fails, and the units arena and
\* the meta namespace are as before the call.
C18_BothTagsRejected ==
    (call.op = "execute_statement" /\ CarriesBothTags(call.statement))
        => /\ result.status = "Err"
           /\ instance.units = before.units
           /\ instance.meta_items = before.meta_items

\* The statement is a MakeBaseUnit whose entity carries no class tag and
\* evaluated to exactly the properties class, a unit class, and symbol, a
\* string.
UntaggedBaseUnit ==
    /\ call.statement.kind = "MakeBaseUnit"
    /\ call.statement.value.kind = "BuildEntity"
    /\ call.statement.value.class_names = <<>>
    /\ ValueBefore.status = "Ok"
    /\ ValueBefore.value.kind = "Entity"
    /\ DOMAIN ValueBefore.value.v.properties = {S_class, S_symbol}
    /\ ValueBefore.value.v.properties[S_class].kind = "UnitClass"
    /\ ValueBefore.value.v.properties[S_symbol].kind = "String"

\* None of the statement's names is bound in the meta namespace before the call.
NamesFree == \A i \in 1..Len(call.statement.names) : ~NameBound(before, call.statement.names[i])

\* C19: in any Instance in which the statement's names are free, a
\* MakeBaseUnit statement whose entity carries exactly the properties class (a
\* unit-class composite) and symbol (a string) and no class tag succeeds and
\* registers exactly one unit, bound to all the given names, with base_ratio
\* 1.0, the given class and symbol, and no prefixed variant.
C19_TagsOptional ==
    (call.op = "execute_statement" /\ UntaggedBaseUnit /\ NamesFree)
        => /\ result.status = "Ok"
           /\ Len(instance.units) = Len(before.units) + 1
           /\ BoundNames(instance) = BoundNames(before) \cup Range(call.statement.names)
           /\ \A i \in 1..Len(call.statement.names) :
                  /\ BoundToUnit(instance, call.statement.names[i], F(1),
                                 ValueBefore.value.v.properties[S_symbol].v)
                  /\ UnitIdOf(instance, call.statement.names[i]) = Len(before.units)
           /\ LET unit == StoragePool_index(instance.units, Len(before.units))
              IN  /\ unit.class = ValueBefore.value.v.properties[S_class].v
                  /\ unit.names = call.statement.names

\* The expression of the property `name` of an entity builder.
PropertyExpression(builder, name) ==
    builder.properties[CHOOSE i \in 1..Len(builder.properties) :
                           builder.properties[i][1] = name][2]

\* 2 * expression
Twice(expression) == BinaryExpr(NumericLiteral(F(2)), "Mul", expression)

\* A MakeDerivedUnit statement succeeded, and none of its names is a value.
DerivedUnitDeclared ==
    /\ call.op = "execute_statement"
    /\ call.statement.kind = "MakeDerivedUnit"
    /\ result.status = "Ok"
    /\ \A i \in 1..Len(call.statement.names) :
           ~ManyToOneMap_has(instance.values, call.statement.names[i])

\* What the expression evaluates to on the instance the call left.
After(expression) ==
    resolve_expression(instance, debug_assertions, expression,
                       AmbiguityResolutionContext_default)

\* The two evaluations gave scalars of one value and one dimension.
SameScalar(a, b) ==
    /\ a.status = "Ok" /\ a.value.kind = "Scalar"
    /\ b.status = "Ok" /\ b.value.kind = "Scalar"
    /\ a.value.v.value = b.value.v.value
    /\ Composite_eq(a.value.v.unit, b.value.v.unit)

\* C20: a successful MakeDerivedUnit statement registers a unit whose
\* dimension is the dimension of the entity's value scalar and whose
\* base_ratio is that scalar's value in base units; afterwards k * NewUnit
\* evaluates to a scalar with the base value and the dimension of k * value,
\* and it can be added to a scalar of that dimension.
C20_DerivedUnitAsScalar ==
    DerivedUnitDeclared
        => LET name  == call.statement.names[1]
               value == PropertyExpression(call.statement.value, S_value)
           IN  /\ NameBound(instance, name)
               /\ ManyToOneMap_get(instance.meta_items, name).kind = "Unit"
               /\ StoragePool_has(instance.units, UnitIdOf(instance, name))
               /\ StoragePool_index(instance.units, UnitIdOf(instance, name)).class
                      = ExtractionBefore.fields[2].unit
               /\ StoragePool_index(instance.units, UnitIdOf(instance, name)).base_ratio
                      = ExtractionBefore.fields[2].value
               /\ SameScalar(After(Twice(LookupName(name))), After(Twice(value)))
               /\ After(BinaryExpr(Twice(LookupName(name)), "Add", value)).status = "Ok"

(***************************************************************************)
(* Properties of the value declarations and the namespaces (SpecExec).     *)
(***************************************************************************)
\* None of the statement's names is bound in the values namespace before the call.
ValueNamesFree ==
    \A i \in 1..Len(call.statement.names) :
        ~ManyToOneMap_has(before.values, call.statement.names[i])

\* The values namespace gained the statement's names, each bound to the
\* entity, and nothing else of the Instance changed.
OnlyValuesGained(entity) ==
    /\ DOMAIN instance.values.keys
           = DOMAIN before.values.keys \cup Range(call.statement.names)
    /\ \A name \in Range(call.statement.names) :
           ManyToOneMap_get(instance.values, name) = entity
    /\ \A name \in DOMAIN before.values.keys :
           ManyToOneMap_get(instance.values, name) = ManyToOneMap_get(before.values, name)
    /\ instance.meta_items = before.meta_items
    /\ instance.labels = before.labels
    /\ instance.unit_classes = before.unit_classes
    /\ instance.units = before.units
    /\ instance.entity_classes = before.entity_classes

\* C21: a MakeValue statement succeeds only if its expression evaluates to an
\* Entity and all its names are free in the values namespace; on success
\* exactly the values namespace gains the names; if the expression evaluates
\* to a scalar, a string, a unit, a unit class or an entity class the
\* statement fails and nothing is stored.
C21_MakeValue ==
    (call.op = "execute_statement" /\ call.statement.kind = "MakeValue")
        => /\ result.status = "Ok"
                 => /\ ValueBefore.status = "Ok"
                    /\ ValueBefore.value.kind = "Entity"
                    /\ ValueNamesFree
                    /\ OnlyValuesGained(ValueBefore.value.v)
           /\ (ValueBefore.status = "Ok" /\ ValueBefore.value.kind # "Entity")
                 => result.status = "Err" /\ instance = before

\* A value was declared under two names, one of them also a unit, and then a
\* second declaration of an entity under one of the names was refused.
C21_Witness ==
    /\ call.op = "execute_statement"
    /\ call.statement.kind = "MakeValue"
    /\ ValueBefore.status = "Ok" /\ ValueBefore.value.kind = "Entity"
    /\ ~ValueNamesFree
    /\ ManyToOneMap_has(before.meta_items, N_Meter)
    /\ result.status = "Err"
    /\ instance = before

\* The statement reached its declaration: it has no value to evaluate, or
\* its value evaluated to what its kind stores.
ReachesDeclaration ==
    \/ call.statement.kind \in {"MakeUnitClass", "MakeEntityClass"}
    \/ /\ call.statement.kind \in {"MakeBaseUnit", "MakeDerivedUnit", "MakeLabel", "MakeValue"}
       /\ ValueBefore.status = "Ok"
       /\ ~ExtractionFailed

\* The namespace the statement declares its names in, as before the call.
TargetNamespace ==
    IF call.statement.kind = "MakeValue" THEN before.values
    ELSE IF call.statement.kind = "MakeLabel" THEN before.labels
    ELSE before.meta_items

\* The names the statement declares: its own, and for a unit with a prefix
\* tag the prefixed ones.
DeclaredNames ==
    Range(call.statement.names)
    \cup (IF call.statement.kind \in {"MakeBaseUnit", "MakeDerivedUnit"}
          THEN {PrefixedAlias(k, N) :
                    k \in GeneratedPrefixes(Unwrap(PrefixTypeOf(ExtractionBefore.has[1],
                                                                ExtractionBefore.has[2]))),
                    N \in Range(call.statement.names)}
          ELSE {})

\* The names bound in all three namespaces.
BoundThrice(inst) ==
    BoundNames(inst) \cap DOMAIN inst.values.keys \cap DOMAIN inst.labels.keys

\* C24: the three namespaces are independent: a declaration is rejected for
\* a name collision only when one of the names it declares is bound in the
\* namespace it targets, whatever the other two hold; a name bound in all
\* three has all three hits in lookup_item.
C24_NamespacesIndependent ==
    (call.op = "execute_statement" /\ ReachesDeclaration)
        => /\ result.status = "Err"
                 <=> \E name \in DeclaredNames : ManyToOneMap_has(TargetNamespace, name)
           /\ \A name \in BoundThrice(instance) :
                  lookup_item(instance, name)
                      = [as_meta  |-> <<ManyToOneMap_get(instance.meta_items, name)>>,
                         as_value |-> <<ManyToOneMap_get(instance.values, name)>>,
                         as_label |-> << <<name, ManyToOneMap_get(instance.labels, name)>> >>]

\* A declaration succeeded that bound, in the one namespace that did not
\* hold it yet, a name the other two held.
C24_Witness ==
    /\ call.op = "execute_statement"
    /\ ReachesDeclaration
    /\ result.status = "Ok"
    /\ \E name \in Range(call.statement.names) :
           /\ name \in BoundThrice(instance)
           /\ name \notin BoundThrice(before)

\* C25: executing a Show statement, and calling resolve_expression (which
\* calls lookup_item for the names), never changes the Instance: the arenas
\* and the three namespaces are as before, whether the evaluation succeeds
\* or fails.
C25_ReadsLeaveInstance ==
    (\/ call.op = "execute_statement" /\ call.statement.kind = "Show"
     \/ call.op = "resolve_expression")
        => instance = before

\* A Show statement printed a scalar on an instance that has declarations.
C25_Witness ==
    /\ call.op = "execute_statement"
    /\ call.statement.kind = "Show"
    /\ result.status = "Ok"
    /\ ValueBefore.value.kind = "Scalar"
    /\ NameBound(before, N_Meter)
    /\ instance = before

(***************************************************************************)
(* Properties of the entity builder (SpecEntity).                          *)
(***************************************************************************)
\* The fields in the order the permutation gives.
Reordered(fields, p) == [i \in 1..Len(fields) |-> fields[p[i]]]

FieldOrders(n) == {p \in [1..n -> 1..n] : \A i, j \in 1..n : p[i] = p[j] => i = j}

\* The builder of the call, as parsed.
Builder == entity_builder(call.fields)

\* What the i-th property expression of the builder evaluates to.
PropertyValue(i) ==
    resolve_expression(before, debug_assertions, Builder.properties[i][2], call.context)

\* Every class-tag name is bound in the meta namespace to an entity class.
TagsAreEntityClasses ==
    \A i \in 1..Len(Builder.class_names) :
        /\ NameBound(before, Builder.class_names[i])
        /\ ManyToOneMap_get(before.meta_items, Builder.class_names[i]).kind = "EntityClass"

\* The result is an Entity with the class ids of the tags and, under each
\* property name, what each expression written under it evaluated to.
BuiltAsWritten ==
    /\ result.value.kind = "Entity"
    /\ result.value.v.classes
           = {ManyToOneMap_get(before.meta_items, Builder.class_names[i]).v :
                  i \in 1..Len(Builder.class_names)}
    /\ DOMAIN result.value.v.properties
           = {Builder.properties[i][1] : i \in 1..Len(Builder.properties)}
    /\ \A i \in 1..Len(Builder.properties) :
           result.value.v.properties[Builder.properties[i][1]] = PropertyValue(i).value

\* Written in any other order, the fields evaluate to the same.
OrderIrrelevant ==
    \A p \in FieldOrders(Len(call.fields)) :
        LET Same(data) == data.status = result.status /\ data.value = result.value
        IN  Same(resolve_expression(before, debug_assertions,
                                    entity_builder(Reordered(call.fields, p)), call.context))

BuilderRule ==
    /\ result.status = "Ok"
           <=> /\ TagsAreEntityClasses
               /\ \A i \in 1..Len(Builder.properties) : PropertyValue(i).status = "Ok"
    /\ result.status = "Ok" => BuiltAsWritten /\ OrderIrrelevant
    /\ ~TagsAreEntityClasses => result.status = "Err"

\* C22 (as stated): evaluating an entity builder succeeds iff every class-tag
\* name is bound in the meta namespace to an EntityClass and every property
\* expression evaluates; the Entity has exactly those class ids and exactly
\* the evaluated properties, whatever the order the fields were written in;
\* a tag naming anything else makes the evaluation fail.
C22_EntityBuilder == call.op = "resolve_builder" => BuilderRule

\* No two properties of the builder have the same name.
DistinctPropertyNames ==
    \A i, j \in 1..Len(Builder.properties) :
        Builder.properties[i][1] = Builder.properties[j][1] => i = j

\* C22 (amended): the same, for builders whose property names are pairwise
\* distinct.
C22_EntityBuilderDistinctNames ==
    (call.op = "resolve_builder" /\ DistinctPropertyNames) => BuilderRule

\* A builder with a tag written between two properties evaluated.
C22_Witness ==
    /\ call.op = "resolve_builder"
    /\ Len(call.fields) = 3
    /\ IsSome(call.fields[1].value)
    /\ ~IsSome(call.fields[2].value)
    /\ IsSome(call.fields[3].value)
    /\ result.status = "Ok"
    /\ result.value.v.classes # {}

(***************************************************************************)
(* Properties of the expression parser (SpecChain).                        *)
(***************************************************************************)
\* The last position of the operators that holds one of the characters, or 0.
LastOf(ops, chars) ==
    IF \E i \in 1..Len(ops) : ops[i] \in chars
    THEN CHOOSE i \in 1..Len(ops) :
             ops[i] \in chars /\ \A j \in (i + 1)..Len(ops) : ops[j] \notin chars
    ELSE 0

OperatorOf(c) ==
    IF c = "+" THEN "Add" ELSE IF c = "-" THEN "Sub"
    ELSE IF c = "*" THEN "Mul" ELSE IF c = "/" THEN "Div" ELSE "Pow"

\* The tree the grammar gives the chain: it splits at its last + or -, a
\* chain without them at its last * or /, and a chain of ^ at its first ^.
RECURSIVE GrammarTree(_, _)
GrammarTree(terms, ops) ==
    LET Split(k) ==
            BinaryExpr(GrammarTree(SubSeq(terms, 1, k), SubSeq(ops, 1, k - 1)),
                       OperatorOf(ops[k]),
                       GrammarTree(SubSeq(terms, k + 1, Len(terms)),
                                   SubSeq(ops, k + 1, Len(ops))))
    IN  IF Len(terms) = 1 THEN terms[1].expression
        ELSE IF LastOf(ops, {"+", "-"}) > 0 THEN Split(LastOf(ops, {"+", "-"}))
        ELSE IF LastOf(ops, {"*", "/"}) > 0 THEN Split(LastOf(ops, {"*", "/"}))
        ELSE Split(1)

\* C26: the parser builds the tree of the grammar: + and - chain to the
\* left, * and / chain to the left and bind tighter, ^ chains to the right
\* and binds tightest, and a parenthesised sub-expression is an atom.
C26_PrecedenceAndAssociativity ==
    call.op = "parse_expression"
        => /\ result.value.ok
           /\ result.value.rest = <<>>
           /\ result.value.value = GrammarTree(call.terms, call.ops)

\* A chain a ^ b ^ c was parsed as a ^ (b ^ c), or a chain a - b * c as
\* a - (b * c).
C26_Witness ==
    /\ call.op = "parse_expression"
    /\ Len(call.terms) = 3
    /\ result.value.ok
    /\ \/ /\ call.ops = <<"^", "^">>
          /\ result.value.value.lhs = call.terms[1].expression
          /\ result.value.value.rhs.kind = "BinaryExpr"
       \/ /\ call.ops = <<"-", "*">>
          /\ result.value.value.op = "Sub"
          /\ result.value.value.rhs.op = "Mul"

(***************************************************************************)
(* Properties of the statement parser (SpecMake).                          *)
(***************************************************************************)
\* The labels whose statement has to have a value.
ValueLabels == {MakeLabels[2], MakeLabels[3], MakeLabels[5], MakeLabels[6]}

\* The statement has a value expression: text after the names, which for a
\* label is the text after the keyword for.
ValueFollows ==
    IF call.label = L_label
    THEN call.follows.for /\ call.follows.value # <<>>
    ELSE call.follows.for \/ call.follows.value # <<>>

\* An entity builder opens directly after the names.
BuilderFollows ==
    /\ ~call.follows.for
    /\ call.follows.value # <<>>
    /\ Head(call.follows.value) = "{"

\* C27: make unit_class never consumes a value expression; make label fails
\* to parse unless the keyword for precedes its expression; make base_unit,
\* derived_unit, label and value fail to parse when no value expression
\* follows; make entity_class parses a value only if the next character that
\* is no whitespace is '{', and otherwise yields an empty entity builder and
\* leaves the text that follows.
C27_ValueRules ==
    call.op = "parse_make"
        => /\ call.label = L_unit_class
                 => /\ result.value.ok
                    /\ result.value.value = Statement("MakeUnitClass", call.names, NoValue)
                    /\ result.value.rest = parse_whitespace(AfterLead(call.follows))
           /\ (call.label = L_label /\ ~call.follows.for) => ~result.value.ok
           /\ (call.label \in ValueLabels /\ ~ValueFollows) => ~result.value.ok
           /\ call.label = L_entity_class
                 => /\ result.value.ok
                    /\ IF BuilderFollows
                       THEN /\ result.value.value
                                   = Statement("MakeEntityClass", call.names,
                                               Unwrap(call.follows.expression))
                            /\ result.value.rest = parse_whitespace(call.follows.next)
                       ELSE /\ result.value.value
                                   = Statement("MakeEntityClass", call.names, EmptyBuilder)
                            /\ result.value.rest = parse_whitespace(AfterLead(call.follows))

(***************************************************************************)
(* Properties of the arenas (SpecApi).                                     *)
(***************************************************************************)
\* The arena a meta item points into, and the id it holds.
ArenaOf(inst, data) ==
    IF data.kind = "UnitClass" THEN inst.unit_classes
    ELSE IF data.kind = "Unit" THEN inst.units
    ELSE inst.entity_classes

IdOf(data) == IF data.kind = "EntityClass" THEN data.v ELSE data.v[1][2]

\* The names bound to the item at a (zero-based) index of a map.
KeysOf(map, index) == {k \in DOMAIN map.keys : map.keys[k] = index}

\* C28: in every build, after any add_unit_class, add_unit and
\* add_entity_class calls, every id bound in the meta namespace (the class
\* ids that units are given are among them) indexes an existing item of its
\* arena, that item is the one declared under the names the id is bound to,
\* and two declarations never share an id.
C28_BoundIdsDesignateTheirItems ==
    LET items == instance.meta_items.items
    IN  /\ \A i \in 1..Len(items) :
               /\ StoragePool_has(ArenaOf(instance, items[i]), IdOf(items[i]))
               /\ KeysOf(instance.meta_items, i - 1)
                      = Range(StoragePool_index(ArenaOf(instance, items[i]),
                                                IdOf(items[i])).names)
        /\ \A i, j \in 1..Len(items) :
               (i # j /\ items[i].kind = items[j].kind) => IdOf(items[i]) # IdOf(items[j])

(***************************************************************************)
(* Properties of the compound assignments (SpecAssign).                    *)
(***************************************************************************)
\* C29: after a *= b the value of a is a * b, and after a /= b the value
\* of a is a / b, so that a /= a leaves the identity.
C29_AssignAgreesWithBinary ==
    result.status = "Ok"
        => /\ call.op = "MulAssign" => Composite_eq(lhs, Composite_mul(before, rhs))
           /\ call.op = "DivAssign" => Composite_eq(lhs, Composite_div(before, rhs))
           /\ (call.op = "DivAssign" /\ before = rhs) => Composite_is_identity(lhs)

(***************************************************************************)
(* Properties of the precision of evaluated scalars (SpecBinary).          *)
(***************************************************************************)
\* C30: every Scalar that resolve_expression produces has precision Exact:
\* literals and units converted to scalars are Exact, and add, sub (which
\* negates), mul, div and pow give an Exact result for Exact operands.
C30_OnlyExact ==
    ProducedScalar => result.value.v.precision = Exact

\* 3 * Meter - 3 * Meter was evaluated: literals, units converted to
\* scalars, products, a negation and a sum.
C30_Witness ==
    /\ ProducedScalar
    /\ result.value.v.precision = Exact
    /\ call.binary_op = "Sub"
    /\ call.lhs = E_three_meters
    /\ call.rhs = E_three_meters
    /\ result.value.v.unit = Composite_from(0)

====
